---------------------------- MODULE Spec2Model ----------------------------
(***************************************************************************)
(* A model of the UIEE scheduling engine (UIEECoreEngine).                 *)
(*                                                                         *)
(* The engine's components are modelled over one set of variables; each    *)
(* component has its own specification (SpecPareto, SpecNash, ...) that    *)
(* moves only that component's variables.                                  *)
(*                                                                         *)
(* Numbers.  The code computes in double.  Objective values, metrics and   *)
(* scores are modelled as integers; weights are modelled in tenths (0.4 is *)
(* 4), so a weighted score is an integer number of tenths.  The strategy   *)
(* vector of the Nash iteration is modelled with exact rationals.          *)
(***************************************************************************)
EXTENDS Integers, Sequences, FiniteSets, TLC

VARIABLES
    \* ---- Config (uiee_engine.h, struct Config) ----
    config,
    \* ---- Pareto optimizer: the caller's point list and the two results ----
    test_points,        \* the list handed to calculateParetoFrontier
    pareto_frontier,    \* its result
    frontier_arg,       \* the list handed to findOptimalPoint
    optimal,            \* its result
    pareto_pc,          \* which of the calls has returned last
    \* ---- Nash solver: the caller's matrix and the results of its calls ----
    payoff_matrix,          \* the matrix handed to calculateNashEquilibrium
    equilibrium,            \* the result of the last call
    previous_equilibrium,   \* the result of the call before it
    nash_calls,             \* how many calls have returned
    \* ---- Config file and the call of loadConfig ----
    config_file,            \* the lines of the file at configPath
    config_file_exists,     \* whether the file can be opened
    load_pc,                \* where the caller of loadConfig is
    load_log,               \* the levels of what loadConfig logged
    saved_config,           \* config_ when saveConfig wrote the file
    \* ---- Metrics ----
    performance_history,    \* performance_history_
    history_erased,         \* whether the last tick erased the oldest entry
    \* ---- PerformanceMonitor, AdaptiveSamplingConfig and the two flags of
    \*      PerformanceOptimizationConfig that guard them ----
    cpu_usage_samples,
    memory_usage_samples,
    sample_index,
    avg_cpu_usage,
    avg_memory_usage,
    base_sampling_interval,
    enable_adaptive_sampling,
    enable_performance_monitoring,
    sampling_call,          \* the function of the controller that returned last
    interval_before,        \* base_sampling_interval when it was entered
    sampling_calls,         \* how many calls have returned
    optimized_result,       \* what the optimized path that returned last did
    \* ---- PopulationEvolutionManager ----
    population_size,        \* population_size_
    population,             \* population_
    current_generation,     \* current_generation_
    evolution_call,         \* the function of the engine that returned last
    generation_before,      \* current_generation_ when it was entered
    \* ---- HamiltonFitnessFunction: the fitness cache ----
    cache,                  \* cache_, the ring of FitnessCache entries
    cache_index,            \* cache_index_, the slot of the next insertion
    cache_hits,             \* cache_hits_
    cache_misses,           \* cache_misses_
    computations,           \* how many times the fitness formula was computed
    clock,                  \* steady_clock::now()
    lookup_metrics,         \* the metrics of the last call of calculateFitness
    returned_fitness,       \* what it returned
    lookups,                \* how many calls have returned
    \* ---- The engine's threads: start, stop, mainLoop, monitoringLoop ----
    running,                \* running_
    caller_pc,              \* where the thread that calls the public operations is
    main_pc,                \* where main_thread_ is in mainLoop ("none": no thread)
    monitor_pc,             \* where monitor_thread_ is in monitoringLoop
    tasks_mutex,            \* the owner of tasks_mutex_
    config_mutex,           \* the owner of config_mutex_
    active_tasks,           \* active_tasks_
    nice_values,            \* what setpriority was last called with, per pid
    tick_metrics,           \* getCurrentMetrics has run in the tick of mainLoop
    live_main_loops,        \* threads that are inside mainLoop
    live_monitor_loops,     \* threads that are inside monitoringLoop
    shutdown_logs,          \* entries of the shutdown message in the log
    joins,                  \* calls of std::thread::join
    calls,                  \* the calls of start and stop that have returned
    \* ---- PopulationEvolutionManager: a generation in progress and a reader ----
    evolve_pc,              \* 0: no generation in progress; k: individual k is next
    generation_population,  \* the population when the generation began
    last_read,              \* what getCurrentPopulation / getBestIndividual returned
    \* ---- Long-term evolution: the history of generations ----
    evolution_active,       \* evolution_active_
    engine_generation,      \* UIEECoreEngine's current_generation_
    evolution_history,      \* evolution_history_, oldest first
    evolution_threads,      \* the threads running evolutionMainLoop, in creation order
    game_running,           \* game_running_
    saved_evolution,        \* the history saveEvolutionData wrote, and whether it is loaded
    tick_errors,            \* the errors logged by the handler of each loop
    \* ---- The task registry through the public interface ----
    cto_config,             \* config_.cto_config
    last_call,              \* what the last call of the registry did
    \* ---- RepeatedPrisonersDilemma ----
    players,                \* players_ of the game manager
    game_call,              \* what the last call of the game manager did
    game_calls,         \* how many calls of the game manager have returned
    \* ---- evolution_mutex_ and the accesses to the history ----
    evolution_mutex,        \* who holds evolution_mutex_
    history_pc,             \* where the evolution loop and the caller are
    load_pending,           \* the entries loadEvolutionData has yet to push
    history_access,     \* the last access to evolution_history_
    \* ---- start() and stop() called from several threads ----
    callers_pc,             \* where each thread that calls start() or stop() is
    main_thread,            \* main_thread_: the loop thread it owns, 0 when not joinable
    monitor_thread,         \* monitor_thread_, likewise
    loop_threads,           \* the loop threads created so far
    handle_events,          \* what has happened to the two thread handles
    caller_calls            \* how many calls of start() and stop() have been made

paretoVars == <<test_points, pareto_frontier, frontier_arg, optimal, pareto_pc>>
nashVars == <<payoff_matrix, equilibrium, previous_equilibrium, nash_calls>>
loadVars == <<config_file, config_file_exists, load_pc, load_log, saved_config>>
cesVars == <<performance_history, history_erased>>
monitorVars == <<cpu_usage_samples, memory_usage_samples, sample_index,
                 avg_cpu_usage, avg_memory_usage>>
samplingVars == <<monitorVars, base_sampling_interval, enable_adaptive_sampling,
                  enable_performance_monitoring, sampling_call, interval_before,
                  sampling_calls, optimized_result>>

evolutionVars == <<population_size, population, current_generation,
                   evolution_call, generation_before>>

cacheVars == <<cache, cache_index, cache_hits, cache_misses, computations,
               clock, lookup_metrics, returned_fitness, lookups>>

lifecycleVars == <<running, caller_pc, main_pc, monitor_pc, tasks_mutex,
                   config_mutex, active_tasks, nice_values, tick_metrics,
                   live_main_loops, live_monitor_loops, shutdown_logs, joins,
                   calls>>

readerVars == <<evolve_pc, generation_population, last_read>>

historyVars ==
    <<evolution_active, engine_generation, evolution_history, evolution_threads,
      game_running, saved_evolution, tick_errors>>

registryVars == <<cto_config, last_call>>

gameVars == <<players, game_call, game_calls>>

lockVars == <<evolution_mutex, history_pc, load_pending, history_access>>

callersVars == <<callers_pc, main_thread, monitor_thread, loop_threads, handle_events, caller_calls>>

vars == <<config, paretoVars, nashVars, loadVars, cesVars, samplingVars,
          evolutionVars, cacheVars, lifecycleVars, readerVars, historyVars,
          registryVars, gameVars, lockVars, callersVars>>

\* What the actions of one component leave alone of the other components.
notPareto ==
    <<nashVars, loadVars, cesVars, samplingVars, evolutionVars, cacheVars,
      lifecycleVars, readerVars, historyVars, registryVars, gameVars, lockVars,
      callersVars>>
notNash ==
    <<paretoVars, loadVars, cesVars, samplingVars, evolutionVars, cacheVars,
      lifecycleVars, readerVars, historyVars, registryVars, gameVars, lockVars,
      callersVars>>
notLoad ==
    <<paretoVars, nashVars, cesVars, samplingVars, evolutionVars, cacheVars,
      lifecycleVars, readerVars, historyVars, registryVars, gameVars, lockVars,
      callersVars>>
notCES ==
    <<paretoVars, nashVars, loadVars, samplingVars, evolutionVars, cacheVars,
      lifecycleVars, readerVars, historyVars, registryVars, gameVars, lockVars,
      callersVars>>
notSampling ==
    <<paretoVars, nashVars, loadVars, cesVars, evolutionVars, cacheVars,
      lifecycleVars, readerVars, historyVars, registryVars, gameVars, lockVars,
      callersVars>>
notEvolution ==
    <<paretoVars, nashVars, loadVars, cesVars, samplingVars, cacheVars,
      lifecycleVars, readerVars, historyVars, registryVars, gameVars, lockVars,
      callersVars>>
notCache ==
    <<paretoVars, nashVars, loadVars, cesVars, samplingVars, evolutionVars,
      lifecycleVars, readerVars, historyVars, registryVars, gameVars, lockVars,
      callersVars>>
notLifecycle ==
    <<paretoVars, nashVars, loadVars, cesVars, samplingVars, evolutionVars,
      cacheVars, readerVars, historyVars, registryVars, gameVars, lockVars,
      callersVars>>
notLoadNorLifecycle ==
    <<paretoVars, nashVars, cesVars, samplingVars, evolutionVars, cacheVars,
      readerVars, historyVars, registryVars, gameVars, lockVars, callersVars>>
notLifecycleNorHistory ==
    <<paretoVars, nashVars, loadVars, cesVars, samplingVars, evolutionVars,
      cacheVars, readerVars, registryVars, gameVars, lockVars, callersVars>>
notLifecycleNorCES ==
    <<paretoVars, nashVars, loadVars, samplingVars, evolutionVars, cacheVars,
      readerVars, historyVars, registryVars, gameVars, lockVars, callersVars>>
notReader ==
    <<paretoVars, nashVars, loadVars, cesVars, samplingVars, evolutionVars,
      cacheVars, lifecycleVars, historyVars, registryVars, gameVars, lockVars,
      callersVars>>
notReaderNorEvolution ==
    <<paretoVars, nashVars, loadVars, cesVars, samplingVars, cacheVars,
      lifecycleVars, historyVars, registryVars, gameVars, lockVars, callersVars>>
notHistory ==
    <<paretoVars, nashVars, loadVars, cesVars, samplingVars, evolutionVars,
      cacheVars, lifecycleVars, readerVars, registryVars, gameVars, lockVars,
      callersVars>>
notRegistry ==
    <<paretoVars, nashVars, loadVars, cesVars, samplingVars, evolutionVars,
      cacheVars, lifecycleVars, readerVars, historyVars, gameVars, lockVars,
      callersVars>>
notLifecycleNorRegistry ==
    <<paretoVars, nashVars, loadVars, cesVars, samplingVars, evolutionVars,
      cacheVars, readerVars, historyVars, gameVars, lockVars, callersVars>>

notGame ==
    <<paretoVars, nashVars, loadVars, cesVars, samplingVars, evolutionVars,
      cacheVars, lifecycleVars, readerVars, historyVars, registryVars, lockVars,
      callersVars>>

notLock ==
    <<paretoVars, nashVars, loadVars, cesVars, samplingVars, evolutionVars,
      cacheVars, lifecycleVars, readerVars, historyVars, registryVars, gameVars,
      callersVars>>
notHistoryNorLock ==
    <<paretoVars, nashVars, loadVars, cesVars, samplingVars, evolutionVars,
      cacheVars, lifecycleVars, readerVars, registryVars, gameVars, callersVars>>
notCallers ==
    <<paretoVars, nashVars, loadVars, cesVars, samplingVars, evolutionVars,
      cacheVars, lifecycleVars, readerVars, historyVars, registryVars, gameVars, lockVars>>
notLifecycleNorCallers ==
    <<paretoVars, nashVars, loadVars, cesVars, samplingVars, evolutionVars,
      cacheVars, readerVars, historyVars, registryVars, gameVars, lockVars>>

-----------------------------------------------------------------------------
(* Helpers *)

Range(s) == {s[i] : i \in 1..Len(s)}

RECURSIVE SeqsUpTo(_, _)
SeqsUpTo(S, n) ==
    IF n = 0 THEN {<<>>}
    ELSE LET shorter == SeqsUpTo(S, n - 1)
         IN  shorter \cup {Append(s, x) : s \in {t \in shorter : Len(t) = n - 1}, x \in S}

-----------------------------------------------------------------------------
(* Exact arithmetic for the Nash iteration.                                *)
(*                                                                         *)
(* The iteration is modelled over the rationals, exactly: a value is a     *)
(* signed integer numerator over a positive integer denominator.  The      *)
(* integers outgrow the machine integers of the model checker, so a        *)
(* natural number is a sequence of base-Base digits, least significant     *)
(* first and without leading zeros (zero is the empty sequence), and a     *)
(* signed integer is a record [neg, mag].                                  *)

Base == 10000

RECURSIVE BigOfNat(_)
BigOfNat(n) == IF n = 0 THEN <<>> ELSE <<n % Base>> \o BigOfNat(n \div Base)

RECURSIVE BigStrip(_)
BigStrip(a) ==
    IF Len(a) > 0 /\ a[Len(a)] = 0 THEN BigStrip(SubSeq(a, 1, Len(a) - 1)) ELSE a

RECURSIVE BigAddC(_, _, _)
BigAddC(a, b, carry) ==
    IF Len(a) = 0 /\ Len(b) = 0
    THEN IF carry = 0 THEN <<>> ELSE <<carry>>
    ELSE LET x == IF Len(a) = 0 THEN 0 ELSE Head(a)
             y == IF Len(b) = 0 THEN 0 ELSE Head(b)
             t == x + y + carry
         IN  <<t % Base>> \o BigAddC(IF Len(a) = 0 THEN a ELSE Tail(a),
                                     IF Len(b) = 0 THEN b ELSE Tail(b),
                                     t \div Base)

BigAdd(a, b) == BigAddC(a, b, 0)

\* a - b for a >= b
RECURSIVE BigSubB(_, _, _)
BigSubB(a, b, borrow) ==
    IF Len(a) = 0 THEN <<>>
    ELSE LET y == IF Len(b) = 0 THEN 0 ELSE Head(b)
             t == Head(a) - y - borrow
         IN  <<IF t < 0 THEN t + Base ELSE t>>
                 \o BigSubB(Tail(a), IF Len(b) = 0 THEN b ELSE Tail(b),
                            IF t < 0 THEN 1 ELSE 0)

BigSub(a, b) == BigStrip(BigSubB(a, b, 0))

\* -1, 0, 1 as a < b, a = b, a > b
RECURSIVE BigCmpFrom(_, _, _)
BigCmpFrom(a, b, i) ==
    IF i = 0 THEN 0
    ELSE IF a[i] < b[i] THEN -1
    ELSE IF a[i] > b[i] THEN 1
    ELSE BigCmpFrom(a, b, i - 1)

BigCmp(a, b) ==
    IF Len(a) < Len(b) THEN -1
    ELSE IF Len(a) > Len(b) THEN 1
    ELSE BigCmpFrom(a, b, Len(a))

\* a * k for a machine integer 0 <= k <= Base
RECURSIVE BigMulSmallC(_, _, _)
BigMulSmallC(a, k, carry) ==
    IF Len(a) = 0 THEN BigOfNat(carry)
    ELSE LET t == Head(a) * k + carry
         IN  <<t % Base>> \o BigMulSmallC(Tail(a), k, t \div Base)

BigMulSmall(a, k) == IF k = 0 THEN <<>> ELSE BigMulSmallC(a, k, 0)

RECURSIVE BigMul(_, _)
BigMul(a, b) ==
    IF Len(a) = 0 \/ Len(b) = 0 THEN <<>>
    ELSE BigAdd(BigMulSmall(a, Head(b)),
                LET rest == BigMul(a, Tail(b))
                IN  IF Len(rest) = 0 THEN rest ELSE <<0>> \o rest)

\* Signed integers
SInt(neg, mag) == [neg |-> neg /\ Len(mag) > 0, mag |-> mag]
SZero == SInt(FALSE, <<>>)
SOfInt(k) == IF k < 0 THEN SInt(TRUE, BigOfNat(-k)) ELSE SInt(FALSE, BigOfNat(k))
SNeg(a) == SInt(~a.neg, a.mag)
SAbs(a) == SInt(FALSE, a.mag)

SAdd(a, b) ==
    IF a.neg = b.neg THEN SInt(a.neg, BigAdd(a.mag, b.mag))
    ELSE IF BigCmp(a.mag, b.mag) >= 0 THEN SInt(a.neg, BigSub(a.mag, b.mag))
    ELSE SInt(b.neg, BigSub(b.mag, a.mag))

SSub(a, b) == SAdd(a, SNeg(b))
SMul(a, b) == SInt(a.neg # b.neg, BigMul(a.mag, b.mag))

\* a * k for a machine integer k with |k| <= Base
SMulInt(a, k) ==
    IF k < 0 THEN SInt(~a.neg, BigMulSmall(a.mag, -k))
    ELSE SInt(a.neg, BigMulSmall(a.mag, k))

SLess(a, b) == SSub(a, b).neg
SIsPositive(a) == ~a.neg /\ Len(a.mag) > 0

RECURSIVE SSum(_)
SSum(s) == IF Len(s) = 0 THEN SZero ELSE SAdd(Head(s), SSum(Tail(s)))

-----------------------------------------------------------------------------
(* Doubles that can be NaN.                                                *)
(*                                                                         *)
(* A weight or a metric is a record: NaN, or a number.  Metrics are whole   *)
(* numbers; weights and weighted scores are in tenths (0.3 is 3, 100.0 as  *)
(* a score is 1000).  Every comparison with a NaN is false, as in IEEE 754. *)

Double(v) == [nan |-> FALSE, val |-> v]
NaN == [nan |-> TRUE, val |-> 0]

DAdd(a, b) == IF a.nan \/ b.nan THEN NaN ELSE Double(a.val + b.val)
DSub(a, b) == IF a.nan \/ b.nan THEN NaN ELSE Double(a.val - b.val)
DMul(a, b) == IF a.nan \/ b.nan THEN NaN ELSE Double(a.val * b.val)
DLess(a, b) == ~a.nan /\ ~b.nan /\ a.val < b.val

\* std::min(a, b) is (b < a) ? b : a, and std::max(a, b) is (a < b) ? b : a
StdMin(a, b) == IF DLess(b, a) THEN b ELSE a
StdMax(a, b) == IF DLess(a, b) THEN b ELSE a

-----------------------------------------------------------------------------
(* Fractions of machine integers, in lowest terms, for the averages and the *)
(* sampling interval.                                                      *)

RECURSIVE GCD(_, _)
GCD(a, b) == IF b = 0 THEN a ELSE GCD(b, a % b)

Frac(n, d) == [num |-> n \div GCD(n, d), den |-> d \div GCD(n, d)]
FracOfInt(n) == [num |-> n, den |-> 1]
\* x * n / d
FracTimes(x, n, d) == Frac(x.num * n, x.den * d)
FracLess(x, y) == x.num * y.den < y.num * x.den
FracMin(x, y) == IF FracLess(y, x) THEN y ELSE x
FracMax(x, y) == IF FracLess(x, y) THEN y ELSE x

-----------------------------------------------------------------------------
(* SceneType and Config *)

SCENE_GAME == "SCENE_GAME"
SCENE_SOCIAL == "SCENE_SOCIAL"
SCENE_MEDIA == "SCENE_MEDIA"
SCENE_PRODUCTIVITY == "SCENE_PRODUCTIVITY"
SCENE_UNKNOWN == "SCENE_UNKNOWN"

SceneType == {SCENE_GAME, SCENE_SOCIAL, SCENE_MEDIA, SCENE_PRODUCTIVITY, SCENE_UNKNOWN}

\* struct Config with its default member initializers; weights in tenths.
DefaultConfig ==
    [ enable_engine         |-> TRUE,
      scheduling_interval   |-> 5,
      optimization_enabled  |-> TRUE,
      responsiveness_weight |-> Double(3),
      fluency_weight        |-> Double(3),
      efficiency_weight     |-> Double(2),
      thermal_weight        |-> Double(2),
      current_scene         |-> SCENE_UNKNOWN ]

ConfigInit == config = DefaultConfig

\* setScenePreference(scene)
SetScenePreference(scene) ==
    config' = [config EXCEPT !.current_scene = scene]

-----------------------------------------------------------------------------
(* ParetoOptimizer: calculateParetoFrontier and findOptimalPoint *)

\* Bound: the longest point list a caller builds.
MaxPoints == 3

PerformanceValues == {0, 10}
PowerValues == {0, 5}
ThermalValues == {0, 5}
ParameterVectors == {<<>>, <<1>>}

\* struct ParetoPoint
ParetoPoint ==
    [ performance : PerformanceValues,
      power_consumption : PowerValues,
      thermal_impact : ThermalValues,
      parameters : ParameterVectors ]

\* ParetoPoint{} : value-initialized, every double 0.0 and no parameters.
ZeroPoint ==
    [ performance |-> 0, power_consumption |-> 0, thermal_impact |-> 0,
      parameters |-> <<>> ]

\* What a double holds when it was never written: any value.  Two values
\* stand for "any": one that objective values take and one that none takes.
IndeterminateDoubles == {0, 7}

\* "ParetoPoint optimal;" : default-initialized.  The struct has no member
\* initializers, so its three doubles are indeterminate; the vector is empty.
IndeterminatePoints ==
    [ performance : IndeterminateDoubles,
      power_consumption : IndeterminateDoubles,
      thermal_impact : IndeterminateDoubles,
      parameters : {<<>>} ]

\* The condition of lines 278-283: other dominates point.
DominatesMutNoStrict(other, point) ==
    /\ other.performance >= point.performance
    /\ other.power_consumption <= point.power_consumption
    /\ other.thermal_impact <= point.thermal_impact

Dominates(other, point) ==
    /\ other.performance >= point.performance
    /\ other.power_consumption <= point.power_consumption
    /\ other.thermal_impact <= point.thermal_impact
    /\ \/ other.performance > point.performance
       \/ other.power_consumption < point.power_consumption
       \/ other.thermal_impact < point.thermal_impact

\* The inner loop: is points[i] dominated by an element at another index
\* ("&point == &other" compares addresses, so an equal point elsewhere in
\* the list is another point).
IsDominatedMutEarlierOnly(points, i) ==
    \E j \in 1..(i - 1) : Dominates(points[j], points[i])

IsDominated(points, i) ==
    \E j \in 1..Len(points) : j # i /\ Dominates(points[j], points[i])

\* The outer loop: the indices pushed to the result, in input order.
RECURSIVE FrontierFrom(_, _)
FrontierFrom(points, i) ==
    IF i > Len(points) THEN <<>>
    ELSE IF IsDominated(points, i)
         THEN FrontierFrom(points, i + 1)
         ELSE <<i>> \o FrontierFrom(points, i + 1)

FrontierIndices(points) == FrontierFrom(points, 1)

calculateParetoFrontier(points) ==
    LET idx == FrontierIndices(points)
    IN  [k \in 1..Len(idx) |-> points[idx[k]]]

\* The scene switch of findOptimalPoint: <<performance, power, thermal>>
\* weights in tenths.
SceneWeights(scene) ==
    CASE scene = SCENE_GAME         -> <<6, 2, 2>>
      [] scene = SCENE_SOCIAL       -> <<3, 4, 3>>
      [] scene = SCENE_MEDIA        -> <<4, 3, 3>>
      [] scene = SCENE_PRODUCTIVITY -> <<5, 3, 2>>
      [] OTHER                      -> <<4, 3, 3>>

\* score, in tenths.
Score(point, scene) ==
    LET w == SceneWeights(scene)
    IN  w[1] * point.performance - w[2] * point.power_consumption
                                 - w[3] * point.thermal_impact

\* "double best_score = -1.0", in tenths.
InitialBestScore == -10

\* The loop of findOptimalPoint from index i on, with the best score and the
\* index of the point that holds it (0: "optimal" was never assigned).
RECURSIVE OptimalScan(_, _, _, _, _)
OptimalScan(frontier, scene, i, best_score, best_idx) ==
    IF i > Len(frontier) THEN best_idx
    ELSE IF Score(frontier[i], scene) > best_score
         THEN OptimalScan(frontier, scene, i + 1, Score(frontier[i], scene), i)
         ELSE OptimalScan(frontier, scene, i + 1, best_score, best_idx)

OptimalIndex(frontier, scene) == OptimalScan(frontier, scene, 1, InitialBestScore, 0)

\* The values findOptimalPoint may return.
findOptimalPoint(frontier, scene) ==
    IF Len(frontier) = 0 THEN {ZeroPoint}
    ELSE IF OptimalIndex(frontier, scene) = 0 THEN IndeterminatePoints
         ELSE {frontier[OptimalIndex(frontier, scene)]}

ParetoInit ==
    /\ test_points = <<>>
    /\ pareto_frontier = <<>>
    /\ frontier_arg = <<>>
    /\ optimal = ZeroPoint
    /\ pareto_pc = "building"

\* The caller builds its list (runTest: test_points.push_back(point)).
PushPoint(p) ==
    /\ pareto_pc = "building"
    /\ Len(test_points) < MaxPoints
    /\ test_points' = Append(test_points, p)
    /\ UNCHANGED <<config, pareto_frontier, frontier_arg, optimal, pareto_pc>>
    /\ UNCHANGED notPareto

CallCalculateParetoFrontier ==
    /\ pareto_pc = "building"
    /\ pareto_frontier' = calculateParetoFrontier(test_points)
    /\ pareto_pc' = "frontier"
    /\ UNCHANGED <<config, test_points, frontier_arg, optimal>>
    /\ UNCHANGED notPareto

\* findOptimalPoint on the computed frontier (runTest) ...
CallFindOptimalPoint ==
    /\ pareto_pc = "frontier"
    /\ frontier_arg' = pareto_frontier
    /\ optimal' \in findOptimalPoint(pareto_frontier, config.current_scene)
    /\ pareto_pc' = "optimal"
    /\ UNCHANGED <<config, test_points, pareto_frontier>>
    /\ UNCHANGED notPareto

\* ... or on a list that was not filtered: the function takes any list.
CallFindOptimalPointOnList ==
    /\ pareto_pc = "building"
    /\ frontier_arg' = test_points
    /\ optimal' \in findOptimalPoint(test_points, config.current_scene)
    /\ pareto_pc' = "optimal_list"
    /\ UNCHANGED <<config, test_points, pareto_frontier>>
    /\ UNCHANGED notPareto

ParetoSetScene ==
    /\ pareto_pc = "building"
    /\ test_points = <<>>
    /\ \E scene \in SceneType : SetScenePreference(scene)
    /\ UNCHANGED paretoVars
    /\ UNCHANGED notPareto

NextPareto ==
    \/ \E p \in ParetoPoint : PushPoint(p)
    \/ CallCalculateParetoFrontier
    \/ CallFindOptimalPoint
    \/ CallFindOptimalPointOnList
    \/ ParetoSetScene


-----------------------------------------------------------------------------
(* NashSolver: calculateNashEquilibrium                                    *)
(*                                                                         *)
(* The strategy vector is kept as signed integer numerators over one       *)
(* common positive denominator: strategies[i] = num[i] / den.              *)

MaxStrategies == 2
PayoffValues == {-1, 0, 1, 2, 3}

SquareMatrices(n) == [1..n -> [1..n -> PayoffValues]]
PayoffMatrices == UNION {SquareMatrices(n) : n \in 0..MaxStrategies}

max_iterations == 100

\* convergence_threshold = 1e-6 is 1 / InverseConvergenceThreshold
InverseConvergenceThreshold == 1000000

\* equilibrium.strategies.resize(num_strategies, 1.0 / num_strategies)
InitialStrategies(num_strategies) ==
    [num |-> [i \in 1..num_strategies |-> SOfInt(1)],
     den |-> BigOfNat(num_strategies)]

\* expected_payoff += strategies[j] * payoff_matrix[i][j], j = 0 .. n-1;
\* the numerator of the sum over the common denominator
RECURSIVE ExpectedPayoff(_, _, _, _)
ExpectedPayoff(num, row, j, expected_payoff) ==
    IF j > Len(num) THEN expected_payoff
    ELSE ExpectedPayoff(num, row, j + 1,
                        SAdd(expected_payoff, SMulInt(num[j], row[j])))

\* std::max(0.0, expected_payoff)
MaxZero(x) == IF x.neg THEN SZero ELSE x

\* new_strategies[i] = std::max(0.0, expected_payoff), i = 0 .. n-1
RECURSIVE NewStrategies(_, _, _)
NewStrategies(num, matrix, i) ==
    IF i > Len(matrix) THEN <<>>
    ELSE <<MaxZero(ExpectedPayoff(num, matrix[i], 1, SZero))>>
             \o NewStrategies(num, matrix, i + 1)

\* One pass of the loop body up to the normalisation: the vector is divided
\* by its sum only when the sum is positive.
UpdateStrategies(strategies, matrix) ==
    LET new_num == NewStrategies(strategies.num, matrix, 1)
        sum == SSum(new_num)
    IN  IF SIsPositive(sum)
        THEN [num |-> new_num, den |-> sum.mag]
        ELSE [num |-> new_num, den |-> strategies.den]

\* std::abs(new_strategies[i] - strategies[i]) > convergence_threshold, for
\* a/b and c/d:  |a*d - c*b| * (1 / threshold) > b*d
ExceedsThreshold(a, b, c, d) ==
    BigCmp(BigMul(SSub(SMul(a, SInt(FALSE, d)), SMul(c, SInt(FALSE, b))).mag,
                  BigOfNat(InverseConvergenceThreshold)),
           BigMul(b, d)) > 0

Converged(new_strategies, strategies) ==
    \A i \in 1..Len(strategies.num) :
        ~ExceedsThreshold(new_strategies.num[i], new_strategies.den,
                          strategies.num[i], strategies.den)

\* One pass of the loop body: the new vector replaces the old one, and the
\* loop ends when no entry has moved by more than the threshold.
IterationStep(state, matrix) ==
    LET new_strategies == UpdateStrategies(state.strategies, matrix)
    IN  [strategies |-> new_strategies,
         converged  |-> Converged(new_strategies, state.strategies)]

\* At most n passes, ending early on "if (converged) break".  The passes are
\* split in two halves so that the evaluation nests to the logarithm of n.
RECURSIVE Iterations(_, _, _)
Iterations(state, matrix, n) ==
    IF n = 0 \/ state.converged THEN state
    ELSE IF n = 1 THEN IterationStep(state, matrix)
    ELSE Iterations(Iterations(state, matrix, n \div 2), matrix, n - (n \div 2))

\* for (iter = 0; iter < max_iterations; ++iter) { ... if (converged) break; }
Iterate(strategies, matrix) ==
    Iterations([strategies |-> strategies, converged |-> FALSE],
               matrix, max_iterations).strategies

\* utility_value += strategies[i] * strategies[j] * payoff_matrix[i][j]
RECURSIVE UtilityRow(_, _, _, _)
UtilityRow(num, matrix, i, j) ==
    IF j > Len(num) THEN SZero
    ELSE SAdd(SMulInt(SMul(num[i], num[j]), matrix[i][j]),
              UtilityRow(num, matrix, i, j + 1))

RECURSIVE UtilityFrom(_, _, _)
UtilityFrom(num, matrix, i) ==
    IF i > Len(num) THEN SZero
    ELSE SAdd(UtilityRow(num, matrix, i, 1), UtilityFrom(num, matrix, i + 1))

UtilityValue(strategies, matrix) ==
    [num |-> UtilityFrom(strategies.num, matrix, 1),
     den |-> BigMul(strategies.den, strategies.den)]

\* "NashEquilibrium equilibrium;" leaves utility_value without a value; the
\* empty matrix returns it as it is.
IndeterminateUtilities ==
    {[num |-> SOfInt(k), den |-> BigOfNat(1)] : k \in IndeterminateDoubles}

NoEquilibrium == [strategies |-> <<>>, utility_value |-> [num |-> SZero, den |-> BigOfNat(1)]]

\* The set of results the call can return.
calculateNashEquilibrium(matrix) ==
    IF Len(matrix) = 0
    THEN {[strategies |-> <<>>, utility_value |-> u] : u \in IndeterminateUtilities}
    ELSE LET s == Iterate(InitialStrategies(Len(matrix)), matrix)
         IN  {[strategies |-> [i \in 1..Len(matrix) |->
                                  [num |-> s.num[i], den |-> s.den]],
               utility_value |-> UtilityValue(s, matrix)]}

NashInit ==
    /\ payoff_matrix = <<>>
    /\ equilibrium = NoEquilibrium
    /\ previous_equilibrium = NoEquilibrium
    /\ nash_calls = -1

\* The caller builds its matrix (runTest: payoff_matrix = {{3, 1}, {0, 2}}).
BuildPayoffMatrix(matrix) ==
    /\ nash_calls = -1
    /\ payoff_matrix' = matrix
    /\ nash_calls' = 0
    /\ UNCHANGED <<config, equilibrium, previous_equilibrium>>
    /\ UNCHANGED notNash

MaxNashCalls == 2

CallCalculateNashEquilibrium ==
    /\ nash_calls >= 0
    /\ nash_calls < MaxNashCalls
    /\ equilibrium' \in calculateNashEquilibrium(payoff_matrix)
    /\ previous_equilibrium' = equilibrium
    /\ nash_calls' = nash_calls + 1
    /\ UNCHANGED <<config, payoff_matrix>>
    /\ UNCHANGED notNash

\* The engine's state changes between two calls.
NashSetScene ==
    /\ nash_calls = 1
    /\ config.current_scene = SCENE_UNKNOWN
    /\ SetScenePreference(SCENE_GAME)
    /\ UNCHANGED nashVars
    /\ UNCHANGED notNash

NextNash ==
    \/ \E matrix \in PayoffMatrices : BuildPayoffMatrix(matrix)
    \/ CallCalculateNashEquilibrium
    \/ NashSetScene

-----------------------------------------------------------------------------
(* loadConfig                                                              *)
(*                                                                         *)
(* A file is a sequence of lines and a line is a sequence of characters.   *)

\* "enable_engine"
KEY_enable_engine ==
    <<"e", "n", "a", "b", "l", "e", "_", "e", "n", "g", "i", "n", "e">>

\* "scheduling_interval"
KEY_scheduling_interval ==
    <<"s", "c", "h", "e", "d", "u", "l", "i", "n", "g", "_", "i", "n", "t",
      "e", "r", "v", "a", "l">>

\* "optimization_enabled"
KEY_optimization_enabled ==
    <<"o", "p", "t", "i", "m", "i", "z", "a", "t", "i", "o", "n", "_", "e",
      "n", "a", "b", "l", "e", "d">>

\* "responsiveness_weight"
KEY_responsiveness_weight ==
    <<"r", "e", "s", "p", "o", "n", "s", "i", "v", "e", "n", "e", "s", "s",
      "_", "w", "e", "i", "g", "h", "t">>

\* "fluency_weight"
KEY_fluency_weight ==
    <<"f", "l", "u", "e", "n", "c", "y", "_", "w", "e", "i", "g", "h", "t">>

\* "efficiency_weight"
KEY_efficiency_weight ==
    <<"e", "f", "f", "i", "c", "i", "e", "n", "c", "y", "_", "w", "e", "i",
      "g", "h", "t">>

\* "thermal_weight"
KEY_thermal_weight ==
    <<"t", "h", "e", "r", "m", "a", "l", "_", "w", "e", "i", "g", "h", "t">>

\* "true"
VALUE_true == <<"t", "r", "u", "e">>

Whitespace == {" ", "\t", "\r", "\n"}
DigitChars == {"0", "1", "2", "3", "4", "5", "6", "7", "8", "9"}

DigitValue(c) ==
    CASE c = "0" -> 0 [] c = "1" -> 1 [] c = "2" -> 2 [] c = "3" -> 3
      [] c = "4" -> 4 [] c = "5" -> 5 [] c = "6" -> 6 [] c = "7" -> 7
      [] c = "8" -> 8 [] c = "9" -> 9

DigitChar(n) ==
    CASE n = 0 -> "0" [] n = 1 -> "1" [] n = 2 -> "2" [] n = 3 -> "3"
      [] n = 4 -> "4" [] n = 5 -> "5" [] n = 6 -> "6" [] n = 7 -> "7"
      [] n = 8 -> "8" [] n = 9 -> "9"

\* s.find(c): the first position of c at or after i, 0 for npos
RECURSIVE Find(_, _, _)
Find(s, c, i) ==
    IF i > Len(s) THEN 0
    ELSE IF s[i] = c THEN i
    ELSE Find(s, c, i + 1)

\* s.find_first_not_of(" \t\r\n"), 0 for npos
RECURSIVE FindFirstNotOf(_, _)
FindFirstNotOf(s, i) ==
    IF i > Len(s) THEN 0
    ELSE IF s[i] \notin Whitespace THEN i
    ELSE FindFirstNotOf(s, i + 1)

\* s.find_last_not_of(" \t\r\n"), 0 for npos
RECURSIVE FindLastNotOf(_, _)
FindLastNotOf(s, i) ==
    IF i = 0 THEN 0
    ELSE IF s[i] \notin Whitespace THEN i
    ELSE FindLastNotOf(s, i - 1)

\* s.erase(0, s.find_first_not_of(ws)); s.erase(s.find_last_not_of(ws) + 1)
Trim(s) ==
    IF FindFirstNotOf(s, 1) = 0 THEN <<>>
    ELSE SubSeq(s, FindFirstNotOf(s, 1), FindLastNotOf(s, Len(s)))

\* The first position at or after i that does not hold a digit.
RECURSIVE DigitsEnd(_, _)
DigitsEnd(s, i) ==
    IF i > Len(s) \/ s[i] \notin DigitChars THEN i
    ELSE DigitsEnd(s, i + 1)

\* The value of the digits at positions i .. j-1.
RECURSIVE DigitsValue(_, _, _, _)
DigitsValue(s, i, j, acc) ==
    IF i >= j THEN acc
    ELSE DigitsValue(s, i + 1, j, acc * 10 + DigitValue(s[i]))

HasSign(s) == Len(s) > 0 /\ s[1] \in {"+", "-"}
Signed(s, v) == IF Len(s) > 0 /\ s[1] = "-" THEN -v ELSE v

\* std::stoi(value): an optional sign and the longest run of digits; what
\* follows the digits is ignored; std::invalid_argument when there is no
\* digit.  (The values of the model stay inside the range of int.)
stoi(value) ==
    LET first == IF HasSign(value) THEN 2 ELSE 1
        end == DigitsEnd(value, first)
    IN  IF end = first
        THEN [threw |-> TRUE, val |-> 0]
        ELSE [threw |-> FALSE, val |-> Signed(value, DigitsValue(value, first, end, 0))]

\* "nan"
VALUE_nan == <<"n", "a", "n">>

\* std::stod(value): an optional sign, digits, an optional point and more
\* digits, or "nan" after the sign; std::invalid_argument when there is
\* neither.  The result is in tenths: digits after the first fractional one
\* are below the resolution of the model.
stod(value) ==
    LET first == IF HasSign(value) THEN 2 ELSE 1
        int_end == DigitsEnd(value, first)
        has_point == int_end <= Len(value) /\ value[int_end] = "."
        frac_end == IF has_point THEN DigitsEnd(value, int_end + 1) ELSE int_end
        has_frac == has_point /\ frac_end > int_end + 1
        tenths == DigitsValue(value, first, int_end, 0) * 10
                    + (IF has_frac THEN DigitValue(value[int_end + 1]) ELSE 0)
    IN  IF int_end > first \/ has_frac
        THEN [threw |-> FALSE, val |-> Double(Signed(value, tenths))]
        ELSE IF first + 2 <= Len(value) /\ SubSeq(value, first, first + 2) = VALUE_nan
        THEN [threw |-> FALSE, val |-> NaN]
        ELSE [threw |-> TRUE, val |-> NaN]

Applied(cfg) == [config |-> cfg, threw |-> FALSE]
Thrown(cfg) == [config |-> cfg, threw |-> TRUE]

\* The body of the while loop for one line: the config after the line, and
\* whether the line threw out of the loop.
ApplyLine(cfg, line) ==
    IF Len(line) = 0 \/ line[1] = "#" THEN Applied(cfg)
    ELSE IF Find(line, "=", 1) = 0 THEN Applied(cfg)
    ELSE LET pos == Find(line, "=", 1)
             key == Trim(SubSeq(line, 1, pos - 1))
             value == Trim(SubSeq(line, pos + 1, Len(line)))
         IN  IF key = KEY_enable_engine
             THEN Applied([cfg EXCEPT !.enable_engine = (value = VALUE_true)])
             ELSE IF key = KEY_scheduling_interval
             THEN IF stoi(value).threw THEN Thrown(cfg)
                  ELSE Applied([cfg EXCEPT !.scheduling_interval = stoi(value).val])
             ELSE IF key = KEY_optimization_enabled
             THEN Applied([cfg EXCEPT !.optimization_enabled = (value = VALUE_true)])
             ELSE IF key = KEY_responsiveness_weight
             THEN IF stod(value).threw THEN Thrown(cfg)
                  ELSE Applied([cfg EXCEPT !.responsiveness_weight = stod(value).val])
             ELSE IF key = KEY_fluency_weight
             THEN IF stod(value).threw THEN Thrown(cfg)
                  ELSE Applied([cfg EXCEPT !.fluency_weight = stod(value).val])
             ELSE IF key = KEY_efficiency_weight
             THEN IF stod(value).threw THEN Thrown(cfg)
                  ELSE Applied([cfg EXCEPT !.efficiency_weight = stod(value).val])
             ELSE IF key = KEY_thermal_weight
             THEN IF stod(value).threw THEN Thrown(cfg)
                  ELSE Applied([cfg EXCEPT !.thermal_weight = stod(value).val])
             ELSE Applied(cfg)

\* while (std::getline(configFile, line)) { ... }: nothing catches what a
\* line throws, so the loop ends at the first line that throws.
RECURSIVE LoadLines(_, _, _)
LoadLines(cfg, file, i) ==
    IF i > Len(file) THEN Applied(cfg)
    ELSE IF ApplyLine(cfg, file[i]).threw THEN Thrown(cfg)
    ELSE LoadLines(ApplyLine(cfg, file[i]).config, file, i + 1)

\* The file cannot be opened, but the enable flag is cleared.
loadConfigMutDisablesOnMissing(cfg, exists, file) ==
    IF ~exists THEN Applied([cfg EXCEPT !.enable_engine = FALSE])
    ELSE LoadLines(cfg, file, 1)

\* loadConfig(configPath): the config it leaves, and whether it ended by an
\* exception instead of returning.  "exists" says that one of the two
\* candidate paths could be opened; "file" is the file that was.
loadConfig(cfg, exists, file) ==
    IF ~exists THEN Applied(cfg) ELSE LoadLines(cfg, file, 1)

\* The lines a file of the model is made of.
Line(key, value) == key \o <<"=">> \o value

\* operator<< of a non-negative int: its decimal digits
RECURSIVE DecimalDigits(_)
DecimalDigits(n) ==
    IF n < 10 THEN <<DigitChar(n)>>
    ELSE DecimalDigits(n \div 10) \o <<DigitChar(n % 10)>>

\* operator<< of an int
FormatInt(n) ==
    IF n < 0 THEN <<"-">> \o DecimalDigits(-n) ELSE DecimalDigits(n)

\* operator<< of a double with the default precision: a value in tenths is
\* written with its integer part and, when it has one, its one fractional
\* digit; a NaN is written "nan".
FormatDouble(d) ==
    IF d.nan THEN VALUE_nan
    ELSE LET magnitude == IF d.val < 0 THEN -d.val ELSE d.val
         IN  (IF d.val < 0 THEN <<"-">> ELSE <<>>)
             \o DecimalDigits(magnitude \div 10)
             \o (IF magnitude % 10 = 0 THEN <<>>
                 ELSE <<".", DigitChar(magnitude % 10)>>)

\* static_cast<int>(config_.current_scene): the position in enum SceneType
SceneNumber(scene) ==
    CASE scene = SCENE_GAME         -> 0
      [] scene = SCENE_SOCIAL       -> 1
      [] scene = SCENE_MEDIA        -> 2
      [] scene = SCENE_PRODUCTIVITY -> 3
      [] OTHER                      -> 4

\* "current_scene"
KEY_current_scene ==
    <<"c", "u", "r", "r", "e", "n", "t", "_", "s", "c", "e", "n", "e">>

\* "false"
VALUE_false == <<"f", "a", "l", "s", "e">>

\* saveConfig(configPath): the lines it writes
saveConfig(cfg) ==
    << <<"#", " ", "U", "I", "E", "E">>,
       <<"#", " ", "3", ".", "0">>,
       <<>>,
       <<"[", "s", "y", "s", "t", "e", "m", "]">>,
       Line(KEY_enable_engine, IF cfg.enable_engine THEN VALUE_true ELSE VALUE_false),
       Line(KEY_scheduling_interval, FormatInt(cfg.scheduling_interval)),
       Line(KEY_optimization_enabled,
            IF cfg.optimization_enabled THEN VALUE_true ELSE VALUE_false),
       <<>>,
       <<"[", "c", "e", "s", "_", "c", "a", "l", "c", "u", "l", "a", "t", "o", "r", "]">>,
       Line(KEY_responsiveness_weight, FormatDouble(cfg.responsiveness_weight)),
       Line(KEY_fluency_weight, FormatDouble(cfg.fluency_weight)),
       Line(KEY_efficiency_weight, FormatDouble(cfg.efficiency_weight)),
       Line(KEY_thermal_weight, FormatDouble(cfg.thermal_weight)),
       <<>>,
       <<"[", "s", "c", "e", "n", "e", "_", "p", "e", "r", "c", "e", "p", "t", "i", "o",
         "n", "]">>,
       Line(KEY_current_scene, FormatInt(SceneNumber(cfg.current_scene))),
       <<>> >>

ConfigLines ==
    { Line(KEY_scheduling_interval, <<"1", "0">>),
      Line(KEY_scheduling_interval, <<"a", "b", "c">>),
      <<" ">> \o KEY_scheduling_interval \o <<" ", "=", " ", "7", " ">>,
      Line(KEY_fluency_weight, <<"0", ".", "5">>),
      Line(KEY_thermal_weight, <<"x">>),
      <<"#", " ">> \o Line(KEY_scheduling_interval, <<"9">>),
      <<>>,
      KEY_optimization_enabled,
      Line(KEY_enable_engine, <<"f", "a", "l", "s", "e">>) }

MaxLines == 2

ConfigFiles == UNION {[1..n -> ConfigLines] : n \in 0..MaxLines}

\* What loadConfig logs: logError when neither path opens; else logInfo
\* for the path used and, when the loop is left normally, logInfo at the end.
loadConfigLog(cfg, exists, file) ==
    IF ~exists THEN <<"error">>
    ELSE IF loadConfig(cfg, exists, file).threw THEN <<"info">>
    ELSE <<"info", "info">>

LoadInit ==
    /\ config_file = <<>>
    /\ config_file_exists = FALSE
    /\ load_pc = "start"
    /\ load_log = <<>>
    /\ saved_config = [saved |-> FALSE, config |-> DefaultConfig]

\* The file at configPath, as the caller finds it ...
WriteConfigFile(file) ==
    /\ load_pc = "start"
    /\ config_file' = file
    /\ config_file_exists' = TRUE
    /\ load_pc' = "ready"
    /\ UNCHANGED <<config, load_log, saved_config>>
    /\ UNCHANGED notLoad

\* ... or no file at all.
NoConfigFile ==
    /\ load_pc = "start"
    /\ load_pc' = "ready"
    /\ UNCHANGED <<config, config_file, config_file_exists, load_log, saved_config>>
    /\ UNCHANGED notLoad

\* saveConfig(configPath) writes the file from the config; the file could
\* be opened for writing.
CallSaveConfig ==
    /\ load_pc = "start"
    /\ config_file' = saveConfig(config)
    /\ config_file_exists' = TRUE
    /\ saved_config' = [saved |-> TRUE, config |-> config]
    /\ load_pc' = "saved"
    /\ UNCHANGED <<config, load_log>>
    /\ UNCHANGED notLoad

\* The process ends and is run again: main makes a new UIEECoreEngine, whose
\* config_ has the default member initializers.
NewEngine ==
    /\ load_pc = "saved"
    /\ config' = DefaultConfig
    /\ load_pc' = "ready"
    /\ UNCHANGED <<config_file, config_file_exists, load_log, saved_config>>
    /\ UNCHANGED notLoad

\* main / runTest: engine.loadConfig(config_path), outside any try block: an
\* exception that leaves loadConfig ends the process.
CallLoadConfig ==
    /\ load_pc = "ready"
    /\ config' = loadConfig(config, config_file_exists, config_file).config
    /\ load_pc' = IF loadConfig(config, config_file_exists, config_file).threw
                  THEN "terminated" ELSE "returned"
    /\ load_log' = loadConfigLog(config, config_file_exists, config_file)
    /\ UNCHANGED <<config_file, config_file_exists, saved_config>>
    /\ UNCHANGED notLoad

\* The scene is set before the file is loaded.
LoadSetScene ==
    /\ load_pc = "start"
    /\ config.current_scene = SCENE_UNKNOWN
    /\ SetScenePreference(SCENE_GAME)
    /\ UNCHANGED loadVars
    /\ UNCHANGED notLoad

NextLoad ==
    \/ \E file \in ConfigFiles : WriteConfigFile(file)
    \/ NoConfigFile
    \/ CallLoadConfig
    \/ LoadSetScene
    \/ CallSaveConfig
    \/ NewEngine

-----------------------------------------------------------------------------
(* Metrics: getCurrentMetrics, calculateCES and the performance history    *)

\* What /proc/stat, /proc/meminfo and the thermal zone give: getCPUUsage,
\* getMemoryUsage, getThermalState.
CpuReadings == {0, 100}
MemoryReadings == {0, 100}
ThermalReadings == {0, 100}

\* The weighted sum before it is clamped; in tenths.
WeightedSum(metrics) ==
    DSub(DAdd(DAdd(DMul(config.responsiveness_weight, metrics.responsiveness_score),
                   DMul(config.fluency_weight, metrics.fluency_score)),
              DMul(config.efficiency_weight, metrics.efficiency_score)),
         DMul(config.thermal_weight, metrics.thermal_state))

calculateCESMutNoClamp(metrics) ==
    WeightedSum(metrics)

\* return std::max(0.0, std::min(100.0, ces_score)); 100.0 is 1000 tenths
calculateCES(metrics) ==
    StdMax(Double(0), StdMin(Double(1000), WeightedSum(metrics)))

\* PerformanceMetrics metrics = {}; then the readings, the three scores and
\* the CES score.
MetricsOf(cpu, memory, thermal) ==
    [ cpu_usage            |-> Double(cpu),
      memory_usage         |-> Double(memory),
      gpu_usage            |-> Double(0),
      thermal_state        |-> Double(thermal),
      battery_level        |-> Double(100),
      responsiveness_score |-> DSub(Double(100), Double(cpu)),
      fluency_score        |-> DSub(Double(100), Double(thermal)),
      efficiency_score     |-> DSub(Double(100), Double(memory)),
      ces_score            |-> Double(0) ]

getCurrentMetrics(cpu, memory, thermal) ==
    [MetricsOf(cpu, memory, thermal) EXCEPT
        !.ces_score = calculateCES(MetricsOf(cpu, memory, thermal))]

\* static constexpr size_t MAX_HISTORY_SIZE = 1000, scaled down
MAX_HISTORY_SIZE == 2

CESInit ==
    /\ performance_history = <<>>
    /\ history_erased = FALSE

HistoryFullMutNever(history) ==
    FALSE

\* if (performance_history_.size() >= MAX_HISTORY_SIZE)
\*     performance_history_.erase(performance_history_.begin());
HistoryFull(history) ==
    Len(history) >= MAX_HISTORY_SIZE

\* The history after the tick: the oldest entry erased when the history is
\* full, and the metrics pushed back.
AddToHistory(history, metrics) ==
    Append(IF HistoryFull(history) THEN Tail(history) ELSE history, metrics)

\* mainLoop: auto metrics = getCurrentMetrics(); the oldest entry is erased
\* when the history is full, and the metrics are pushed back.
RecordMetrics(cpu, memory, thermal) ==
    /\ performance_history' =
          AddToHistory(performance_history, getCurrentMetrics(cpu, memory, thermal))
    /\ history_erased' = HistoryFull(performance_history)
    /\ UNCHANGED config
    /\ UNCHANGED notCES

\* The weights a config file can set.
WeightLines ==
    { Line(KEY_responsiveness_weight, VALUE_nan),
      Line(KEY_thermal_weight, <<"5", ".", "0">>) }

\* loadConfig of a file that sets a weight
LoadWeights(line) ==
    /\ config' = loadConfig(config, TRUE, <<line>>).config
    /\ UNCHANGED cesVars
    /\ UNCHANGED notCES

\* getBestIndividual().parameters, as the evolution can leave them
BestIndividualParameters ==
    { <<>>,
      <<Double(50), Double(50), Double(50)>>,
      <<Double(-50), Double(-50), Double(50), Double(50), Double(1)>> }

\* applyEvolutionaryParameters()
applyEvolutionaryParameters(parameters) ==
    /\ config' = IF Len(parameters) >= 5
                 THEN [config EXCEPT !.responsiveness_weight = parameters[1],
                                     !.fluency_weight = parameters[2],
                                     !.efficiency_weight = parameters[3],
                                     !.thermal_weight = parameters[4]]
                 ELSE config
    /\ UNCHANGED cesVars
    /\ UNCHANGED notCES

\* combineTraditionalAndEvolutionary()
combineTraditionalAndEvolutionary(parameters) ==
    /\ config' = IF Len(parameters) >= 3
                 THEN [config EXCEPT !.responsiveness_weight = parameters[1],
                                     !.fluency_weight = parameters[2],
                                     !.efficiency_weight = parameters[3]]
                 ELSE config
    /\ UNCHANGED cesVars
    /\ UNCHANGED notCES

NextCES ==
    \/ \E cpu \in CpuReadings, memory \in MemoryReadings, thermal \in ThermalReadings :
          RecordMetrics(cpu, memory, thermal)
    \/ \E line \in WeightLines : LoadWeights(line)
    \/ \E parameters \in BestIndividualParameters :
          applyEvolutionaryParameters(parameters)
    \/ \E parameters \in BestIndividualParameters :
          combineTraditionalAndEvolutionary(parameters)

-----------------------------------------------------------------------------
(* PerformanceMonitor and the adaptive sampling interval                   *)

\* double cpu_usage_samples[10], "% 10", "/ 10.0": the window, scaled down
SampleWindow == 2

\* AdaptiveSamplingConfig(): min_sampling_interval(5.0), max_sampling_interval(120.0)
min_sampling_interval == 5
max_sampling_interval == 120

MaxSamplingCalls == 6

RECURSIVE SumOf(_)
SumOf(samples) == IF Len(samples) = 0 THEN 0 ELSE Head(samples) + SumOf(Tail(samples))

\* PerformanceMonitor(): the samples are filled with 0.0
MonitorInit ==
    /\ cpu_usage_samples = [i \in 1..SampleWindow |-> 0]
    /\ memory_usage_samples = [i \in 1..SampleWindow |-> 0]
    /\ sample_index = 0
    /\ avg_cpu_usage = FracOfInt(0)
    /\ avg_memory_usage = FracOfInt(0)

\* The same, as the next state of a step that makes a new monitor.
MonitorReset ==
    /\ cpu_usage_samples' = [i \in 1..SampleWindow |-> 0]
    /\ memory_usage_samples' = [i \in 1..SampleWindow |-> 0]
    /\ sample_index' = 0
    /\ avg_cpu_usage' = FracOfInt(0)
    /\ avg_memory_usage' = FracOfInt(0)

\* addSample(cpu, memory)
addSample(cpu, memory) ==
    /\ cpu_usage_samples' = [cpu_usage_samples EXCEPT ![sample_index + 1] = cpu]
    /\ memory_usage_samples' = [memory_usage_samples EXCEPT ![sample_index + 1] = memory]
    /\ sample_index' = (sample_index + 1) % SampleWindow
    /\ avg_cpu_usage' = Frac(SumOf(cpu_usage_samples'), SampleWindow)
    /\ avg_memory_usage' = Frac(SumOf(memory_usage_samples'), SampleWindow)

\* shouldReduceSampling(): avg_cpu_usage > 80.0 || avg_memory_usage > 85.0
shouldReduceSampling(avg_cpu, avg_memory) ==
    FracLess(FracOfInt(80), avg_cpu) \/ FracLess(FracOfInt(85), avg_memory)

\* shouldIncreaseSampling(): avg_cpu_usage < 20.0 && avg_memory_usage < 30.0
shouldIncreaseSampling(avg_cpu, avg_memory) ==
    FracLess(avg_cpu, FracOfInt(20)) /\ FracLess(avg_memory, FracOfInt(30))

\* No optimized path has returned.
NoOptimizedResult ==
    [skipped |-> FALSE, draw_below |-> FALSE, plain_called |-> FALSE,
     fitness_before |-> 0, fitness_score |-> 0, returned |-> 0]

SamplingInit ==
    /\ MonitorInit
    /\ optimized_result = NoOptimizedResult
    /\ base_sampling_interval = FracOfInt(30)
    /\ enable_adaptive_sampling = TRUE
    /\ enable_performance_monitoring = TRUE
    /\ sampling_call = "none"
    /\ interval_before = FracOfInt(30)
    /\ sampling_calls = 0

Returned(name) ==
    /\ sampling_calls < MaxSamplingCalls
    /\ sampling_calls' = sampling_calls + 1
    /\ sampling_call' = name
    /\ interval_before' = base_sampling_interval
    /\ optimized_result' = NoOptimizedResult

\* updateAdaptiveSampling(), with what getCurrentMetrics reads
updateAdaptiveSampling(cpu, memory) ==
    /\ Returned("updateAdaptiveSampling")
    /\ IF ~enable_adaptive_sampling
       THEN UNCHANGED <<monitorVars, base_sampling_interval>>
       ELSE /\ addSample(cpu, memory)
            /\ base_sampling_interval' =
                  IF shouldReduceSampling(avg_cpu_usage', avg_memory_usage')
                  THEN FracMin(FracTimes(base_sampling_interval, 12, 10),
                               FracOfInt(max_sampling_interval))
                  ELSE IF shouldIncreaseSampling(avg_cpu_usage', avg_memory_usage')
                  THEN FracMax(FracTimes(base_sampling_interval, 8, 10),
                               FracOfInt(min_sampling_interval))
                  ELSE base_sampling_interval
    /\ UNCHANGED <<enable_adaptive_sampling, enable_performance_monitoring>>
    /\ UNCHANGED config
    /\ UNCHANGED notSampling

\* The interval is multiplied and not capped.
applyPerformanceTuningMutWithoutCap(interval) ==
    FracTimes(interval, 15, 10)

\* applyPerformanceTuning(): the interval becomes min(interval * 1.5, max)
applyPerformanceTuning(interval) ==
    FracMin(FracTimes(interval, 15, 10), FracOfInt(max_sampling_interval))

\* monitorPerformance(), with what getCurrentMetrics reads
monitorPerformance(cpu, memory) ==
    /\ Returned("monitorPerformance")
    /\ IF ~enable_performance_monitoring
       THEN UNCHANGED <<monitorVars, base_sampling_interval>>
       ELSE /\ addSample(cpu, memory)
            /\ base_sampling_interval' =
                  IF cpu > 90 \/ memory > 95
                  THEN applyPerformanceTuning(base_sampling_interval)
                  ELSE base_sampling_interval
    /\ UNCHANGED <<enable_adaptive_sampling, enable_performance_monitoring>>
    /\ UNCHANGED config
    /\ UNCHANGED notSampling

\* disablePerformanceOptimization()
disablePerformanceOptimization ==
    /\ Returned("disablePerformanceOptimization")
    /\ enable_adaptive_sampling' = FALSE
    /\ enable_performance_monitoring' = FALSE
    /\ UNCHANGED <<monitorVars, base_sampling_interval>>
    /\ UNCHANGED config
    /\ UNCHANGED notSampling

\* std::thread::hardware_concurrency()
CpuCores == {2, 4, 8}

\* optimizeForDeviceCharacteristics(): the interval it sets
optimizeForDeviceCharacteristics(cpu_cores, memory) ==
    IF cpu_cores >= 8 /\ memory < 50 THEN FracOfInt(15)
    ELSE IF cpu_cores >= 4 THEN FracOfInt(30)
    ELSE FracOfInt(60)

\* enablePerformanceOptimization(config): the config is stored, the monitor is
\* made anew and the interval is set for the device.
enablePerformanceOptimization(adaptive, monitoring, cpu_cores, memory) ==
    /\ Returned("enablePerformanceOptimization")
    /\ enable_adaptive_sampling' = adaptive
    /\ enable_performance_monitoring' = monitoring
    /\ MonitorReset
    /\ base_sampling_interval' = optimizeForDeviceCharacteristics(cpu_cores, memory)
    /\ UNCHANGED config
    /\ UNCHANGED notSampling

\* The load is not looked at: the draw alone decides.
shouldSkipCalculationMutIgnoresLoad(adaptive, avg_cpu, avg_memory, draw_below) ==
    IF ~adaptive THEN FALSE ELSE draw_below

\* shouldSkipCalculation(); draw_below is dis(gen) < 0.3
shouldSkipCalculation(adaptive, avg_cpu, avg_memory, draw_below) ==
    IF ~adaptive THEN FALSE
    ELSE IF shouldReduceSampling(avg_cpu, avg_memory) THEN draw_below
    ELSE FALSE

\* The fitness scores of an individual
SkipFitnessValues == {0, 5}

OptimizedCall(name) ==
    /\ sampling_calls < MaxSamplingCalls
    /\ sampling_calls' = sampling_calls + 1
    /\ sampling_call' = name
    /\ interval_before' = base_sampling_interval
    /\ UNCHANGED <<monitorVars, base_sampling_interval, enable_adaptive_sampling,
                   enable_performance_monitoring>>
    /\ UNCHANGED config
    /\ UNCHANGED notSampling

\* evaluateIndividualFitnessOptimized(individual): fitness_before is the
\* individual's fitness_score, fitness what evaluateIndividualFitness computes
\* and stores in it.
evaluateIndividualFitnessOptimized(draw_below, fitness_before, fitness) ==
    /\ OptimizedCall("evaluateIndividualFitnessOptimized")
    /\ optimized_result' =
          IF shouldSkipCalculation(enable_adaptive_sampling, avg_cpu_usage,
                                   avg_memory_usage, draw_below)
          THEN [skipped |-> TRUE, draw_below |-> draw_below, plain_called |-> FALSE,
                fitness_before |-> fitness_before, fitness_score |-> fitness_before,
                returned |-> fitness_before]
          ELSE [skipped |-> FALSE, draw_below |-> draw_below, plain_called |-> TRUE,
                fitness_before |-> fitness_before, fitness_score |-> fitness,
                returned |-> fitness]

\* simulateGameRoundOptimized()
simulateGameRoundOptimized(draw_below) ==
    /\ OptimizedCall("simulateGameRoundOptimized")
    /\ optimized_result' =
          IF shouldSkipCalculation(enable_adaptive_sampling, avg_cpu_usage,
                                   avg_memory_usage, draw_below)
          THEN [NoOptimizedResult EXCEPT !.skipped = TRUE, !.draw_below = draw_below]
          ELSE [NoOptimizedResult EXCEPT !.plain_called = TRUE,
                                         !.draw_below = draw_below]

NextSampling ==
    \/ \E cpu \in CpuReadings, memory \in MemoryReadings :
          updateAdaptiveSampling(cpu, memory)
    \/ \E cpu \in CpuReadings, memory \in MemoryReadings :
          monitorPerformance(cpu, memory)
    \/ disablePerformanceOptimization
    \/ \E adaptive \in BOOLEAN, monitoring \in BOOLEAN,
          cpu_cores \in CpuCores, memory \in MemoryReadings :
          enablePerformanceOptimization(adaptive, monitoring, cpu_cores, memory)

NextOptimizedPaths ==
    \/ \E cpu \in CpuReadings, memory \in MemoryReadings :
          updateAdaptiveSampling(cpu, memory)
    \/ disablePerformanceOptimization
    \/ \E adaptive \in BOOLEAN, monitoring \in BOOLEAN,
          cpu_cores \in CpuCores, memory \in MemoryReadings :
          enablePerformanceOptimization(adaptive, monitoring, cpu_cores, memory)
    \/ \E draw_below \in BOOLEAN, fitness_before \in SkipFitnessValues,
          fitness \in SkipFitnessValues :
          evaluateIndividualFitnessOptimized(draw_below, fitness_before, fitness)
    \/ \E draw_below \in BOOLEAN : simulateGameRoundOptimized(draw_below)

-----------------------------------------------------------------------------
(* PopulationEvolutionManager                                              *)
(*                                                                         *)
(* The header declares the class; its member functions are not among the   *)
(* sources.  They are modelled from the specification (section 4.4) and    *)
(* from the outline of evolveGeneration in the integration report.  The    *)
(* functions of the engine that call them are modelled from their code.    *)

\* EvolutionConfig: population_size = 50, scaled down
MaxPopulationSize == 2
MaxGenerations == 3

\* One gene per parameter vector; fitness in whole numbers.
GeneValues == {0, 2}
FitnessValues == {0, 5}

\* FitnessIndividual(): fitness_score(0.0), generation(0), is_valid(true)
NewIndividual(gene) ==
    [parameters |-> <<gene>>, fitness_score |-> 0, generation |-> 0, is_valid |-> TRUE]

\* initializePopulation(): population_size_ individuals, each parameter
\* sampled within a bounded domain
InitialPopulations(size) ==
    {[i \in 1..size |-> NewIndividual(genes[i])] : genes \in [1..size -> GeneValues]}

\* The evaluation: every valid individual gets the fitness that
\* calculateFitness returns for the metrics read for it.
Evaluated(pop, fitness) ==
    [i \in 1..Len(pop) |->
        IF pop[i].is_valid THEN [pop[i] EXCEPT !.fitness_score = fitness[i]] ELSE pop[i]]

\* getBestIndividual(): the position of the first individual of the highest
\* fitness
RECURSIVE BestFrom(_, _, _)
BestFrom(pop, i, best) ==
    IF i > Len(pop) THEN best
    ELSE IF pop[i].fitness_score > pop[best].fitness_score THEN BestFrom(pop, i + 1, i)
    ELSE BestFrom(pop, i + 1, best)

BestIndex(pop) == BestFrom(pop, 2, 1)

\* crossover(parent1, parent2): a blend of the two parameter vectors, here
\* with equal weights
crossover(parent1, parent2, generation) ==
    [parameters |-> <<(parent1.parameters[1] + parent2.parameters[1]) \div 2>>,
     fitness_score |-> 0, generation |-> generation, is_valid |-> TRUE]

\* mutate(individual): an additive perturbation of a gene, or none
Perturbations == {0, 1}
mutate(individual, perturbation) ==
    [individual EXCEPT !.parameters = <<individual.parameters[1] + perturbation>>]

NextPopulationMutNoElite(best, offspring) ==
    offspring

\* The replacement: the best individual is retained and the offspring fill
\* the other places.
NextPopulation(best, offspring) ==
    <<best>> \o offspring

\* evolveGeneration(): evaluation, selection of two parents, crossover and
\* mutation for every place but the first, replacement, and the generation
\* counter goes up by one.
evolveGeneration ==
    /\ current_generation < MaxGenerations
    /\ \E fitness \in [1..Len(population) -> FitnessValues],
          p1 \in 1..Len(population), p2 \in 1..Len(population),
          perturbation \in [1..(Len(population) - 1) -> Perturbations] :
          LET evaluated == Evaluated(population, fitness)
              offspring == [k \in 1..(Len(population) - 1) |->
                               mutate(crossover(evaluated[p1], evaluated[p2],
                                                current_generation + 1),
                                      perturbation[k])]
          IN  population' = NextPopulation(evaluated[BestIndex(evaluated)], offspring)
    /\ current_generation' = current_generation + 1
    /\ UNCHANGED population_size

\* initializeHamiltonComponents(): a manager of the configured size, with its
\* population initialized
EvolutionInit ==
    /\ population_size = MaxPopulationSize
    /\ population = [i \in 1..MaxPopulationSize |-> NewIndividual(0)]
    /\ current_generation = 0
    /\ evolution_call = "none"
    /\ generation_before = 0

\* initializeEvolutionPopulation(population_size): a new manager
initializeEvolutionPopulation(size) ==
    /\ population_size' = size
    /\ population' \in InitialPopulations(size)
    /\ current_generation' = 0
    /\ evolution_call' = "initializeEvolutionPopulation"
    /\ generation_before' = current_generation
    /\ UNCHANGED config
    /\ UNCHANGED notEvolution

\* evolvePopulation()
evolvePopulation ==
    /\ evolveGeneration
    /\ evolution_call' = "evolvePopulation"
    /\ generation_before' = current_generation
    /\ UNCHANGED config
    /\ UNCHANGED notEvolution

\* performGeneticOperations(): the fitness it computes first goes to a copy
\* of the population (getCurrentPopulation returns by value) and is lost.
performGeneticOperations ==
    /\ evolveGeneration
    /\ evolution_call' = "performGeneticOperations"
    /\ generation_before' = current_generation
    /\ UNCHANGED config
    /\ UNCHANGED notEvolution

NextEvolution ==
    \/ \E size \in 1..MaxPopulationSize : initializeEvolutionPopulation(size)
    \/ evolvePopulation
    \/ performGeneticOperations

-----------------------------------------------------------------------------
(* HamiltonFitnessFunction: calculateFitness and its cache                 *)
(*                                                                         *)
(* The header declares the class and defines the cache entry with its      *)
(* hash; the member functions of the class are not among the sources and   *)
(* are modelled from the specification (section 4.3) and from the outline  *)
(* of calculateFitness in the integration report.                          *)

\* The bytes of a double in memory, least significant first, for the values
\* the metrics of the model take; the argument is the value in tenths.
BytesOfDouble(tenths) ==
    CASE tenths = 0    -> <<0, 0, 0, 0, 0, 0, 0, 0>>      \* 0.0   0x0000000000000000
      [] tenths = 100  -> <<0, 0, 0, 0, 0, 0, 36, 64>>    \* 10.0  0x4024000000000000
      [] tenths = 200  -> <<0, 0, 0, 0, 0, 0, 52, 64>>    \* 20.0  0x4034000000000000
      [] tenths = 300  -> <<0, 0, 0, 0, 0, 0, 62, 64>>    \* 30.0  0x403E000000000000
      [] tenths = 500  -> <<0, 0, 0, 0, 0, 0, 73, 64>>    \* 50.0  0x4049000000000000
      [] tenths = 600  -> <<0, 0, 0, 0, 0, 0, 78, 64>>    \* 60.0  0x404E000000000000
      [] tenths = 800  -> <<0, 0, 0, 0, 0, 0, 84, 64>>    \* 80.0  0x4054000000000000
      [] tenths = 1000 -> <<0, 0, 0, 0, 0, 0, 89, 64>>    \* 100.0 0x4059000000000000

\* reinterpret_cast<const char*>(&metrics): the nine doubles in the order of
\* the struct; ces_score is kept in tenths, the other fields in whole numbers.
BytesOfMetrics(metrics) ==
    BytesOfDouble(metrics.cpu_usage.val * 10)
        \o BytesOfDouble(metrics.memory_usage.val * 10)
        \o BytesOfDouble(metrics.gpu_usage.val * 10)
        \o BytesOfDouble(metrics.thermal_state.val * 10)
        \o BytesOfDouble(metrics.battery_level.val * 10)
        \o BytesOfDouble(metrics.responsiveness_score.val * 10)
        \o BytesOfDouble(metrics.fluency_score.val * 10)
        \o BytesOfDouble(metrics.efficiency_score.val * 10)
        \o BytesOfDouble(metrics.ces_score.val)

\* A size_t of 64 bits is four limbs of 16 bits, least significant first.
Limb == 65536

\* a ^ b for 0 <= a, b < 2^bits
RECURSIVE Xor(_, _, _)
Xor(a, b, bits) ==
    IF bits = 0 THEN 0
    ELSE (((a % 2) + (b % 2)) % 2) + 2 * Xor(a \div 2, b \div 2, bits - 1)

\* hash ^= data[i]; the bytes of the model are below 0x80, where a signed and
\* an unsigned char give the same size_t
HashXor(hash, byte) ==
    <<(hash[1] \div 256) * 256 + Xor(hash[1] % 256, byte, 8),
      hash[2], hash[3], hash[4]>>

\* hash *= 1099511628211ULL, modulo 2^64; the prime is 2^40 + 435, that is
\* the limbs <<435, 0, 256, 0>>
HashMul(hash) ==
    LET r1 == hash[1] * 435
        r2 == hash[2] * 435 + (r1 \div Limb)
        r3 == hash[3] * 435 + hash[1] * 256 + (r2 \div Limb)
        r4 == hash[4] * 435 + hash[2] * 256 + (r3 \div Limb)
    IN  <<r1 % Limb, r2 % Limb, r3 % Limb, r4 % Limb>>

\* 1469598103934665603ULL = 0x14650FB0739D0383
FNVOffsetBasis == <<899, 29597, 4016, 5221>>

\* One pass of "for (size_t i = 0; i < sizeof(PerformanceMetrics); ++i)":
\* the state of the loop is the index and the hash so far.
HashStep(state, data) ==
    [i |-> state.i + 1, hash |-> HashMul(HashXor(state.hash, data[state.i]))]

\* n passes of the loop, split in two halves so that the evaluation nests to
\* the logarithm of n.
RECURSIVE HashLoop(_, _, _)
HashLoop(state, data, n) ==
    IF n = 0 \/ state.i > Len(data) THEN state
    ELSE IF n = 1 THEN HashStep(state, data)
    ELSE HashLoop(HashLoop(state, data, n \div 2), data, n - (n \div 2))

calculateHashMutNoData(metrics) ==
    FNVOffsetBasis

\* FitnessCache::calculateHash()
calculateHash(metrics) ==
    HashLoop([i |-> 1, hash |-> FNVOffsetBasis], BytesOfMetrics(metrics),
             Len(BytesOfMetrics(metrics))).hash

\* cache_size_ (PerformanceOptimizationConfig: cache_size(100)), scaled down
CacheSize == 2

\* How long an entry stays valid, in steps of the clock.
ValidityWindow == 2
MaxClock == 3
MaxLookups == 4

\* An entry whose metrics have not been written has nothing of a snapshot.
NoMetrics == [MetricsOf(0, 0, 0) EXCEPT !.battery_level = Double(0),
                 !.responsiveness_score = Double(0), !.fluency_score = Double(0),
                 !.efficiency_score = Double(0)]

\* FitnessCache(): cached_fitness(0.0), is_valid(false), hash_value(0)
EmptyEntry ==
    [metrics |-> NoMetrics, cached_fitness |-> 0, cache_time |-> 0,
     is_valid |-> FALSE, hash_value |-> <<0, 0, 0, 0>>]

\* isCacheValid(entry): the entry is in use and within the validity window
isCacheValid(entry) ==
    entry.is_valid /\ clock - entry.cache_time < ValidityWindow

\* findCacheEntry(metrics): the first slot that holds a valid entry of the
\* hash of the metrics, 0 when there is none
RECURSIVE FindFrom(_, _)
FindFrom(hash, i) ==
    IF i > Len(cache) THEN 0
    ELSE IF isCacheValid(cache[i]) /\ cache[i].hash_value = hash THEN i
    ELSE FindFrom(hash, i + 1)

findCacheEntry(metrics) == FindFrom(calculateHash(metrics), 1)

\* EvolutionConfig: alpha_weight = 0.4, beta_weight = 0.3, gamma_weight = 0.3;
\* max(alpha * performance + beta * efficiency - gamma * cost, 0.0), with the
\* components taken as 100 - cpu_usage, 100 - memory_usage and thermal_state
FitnessOf(metrics) ==
    LET fitness == 4 * (100 - metrics.cpu_usage.val)
                     + 3 * (100 - metrics.memory_usage.val)
                     - 3 * metrics.thermal_state.val
    IN  IF fitness > 0 THEN fitness ELSE 0

CacheInit ==
    /\ cache = [i \in 1..CacheSize |-> EmptyEntry]
    /\ cache_index = 0
    /\ cache_hits = 0
    /\ cache_misses = 0
    /\ computations = 0
    /\ clock = 1
    /\ lookup_metrics = NoMetrics
    /\ returned_fitness = 0
    /\ lookups = 0

\* calculateFitness(metrics, parameters): a hit returns the stored value and
\* counts a hit; a miss computes, writes the slot at cache_index_, moves the
\* index on and counts a miss.
calculateFitness(metrics) ==
    LET entry == findCacheEntry(metrics)
    IN  /\ lookups < MaxLookups
        /\ lookups' = lookups + 1
        /\ lookup_metrics' = metrics
        /\ IF entry # 0
           THEN /\ returned_fitness' = cache[entry].cached_fitness
                /\ cache_hits' = cache_hits + 1
                /\ UNCHANGED <<cache, cache_index, cache_misses, computations>>
           ELSE /\ returned_fitness' = FitnessOf(metrics)
                /\ computations' = computations + 1
                /\ cache' = [cache EXCEPT ![cache_index + 1] =
                                [metrics |-> metrics,
                                 cached_fitness |-> FitnessOf(metrics),
                                 cache_time |-> clock,
                                 is_valid |-> TRUE,
                                 hash_value |-> calculateHash(metrics)]]
                /\ cache_index' = (cache_index + 1) % CacheSize
                /\ cache_misses' = cache_misses + 1
                /\ UNCHANGED cache_hits
        /\ UNCHANGED clock
        /\ UNCHANGED config
        /\ UNCHANGED notCache

\* Time passes.
ClockTick ==
    /\ clock < MaxClock
    /\ clock' = clock + 1
    /\ UNCHANGED <<cache, cache_index, cache_hits, cache_misses, computations,
                   lookup_metrics, returned_fitness, lookups>>
    /\ UNCHANGED config
    /\ UNCHANGED notCache

\* The metrics that are looked up: the readings of a cool device.
NextCache ==
    \/ \E cpu \in CpuReadings, memory \in MemoryReadings :
          calculateFitness(getCurrentMetrics(cpu, memory, 0))
    \/ ClockTick

-----------------------------------------------------------------------------
(* The engine's threads: start, stop, mainLoop, monitoringLoop and the     *)
(* public operations on the task list and the scene                        *)

\* The processes that getRunningPIDs can report.
Pids == {1}

\* Bound: the calls of start and stop that one run makes.
MaxCalls == 3

\* TaskInfo, as addTask's caller builds it for a foreground game ...
CallerTask(pid) ==
    [pid |-> pid, priority |-> 0, app_type |-> "game", is_foreground |-> TRUE]

\* ... and as monitoringLoop builds it for a process it has found.
DetectedTask(pid) ==
    [pid |-> pid, priority |-> 0, app_type |-> "unknown", is_foreground |-> FALSE]

HasPid(tasks, pid) == \E i \in 1..Len(tasks) : tasks[i].pid = pid

\* The task is pushed back whether or not its pid is in the list.
AddTaskMutAlwaysAppends(tasks, task) ==
    Append(tasks, task)

\* addTask: push_back unless a task of the pid exists
AddTask(tasks, task) ==
    IF HasPid(tasks, task.pid) THEN tasks ELSE Append(tasks, task)

\* removeTask: erase the first task of the pid
RECURSIVE RemoveTask(_, _)
RemoveTask(tasks, pid) ==
    IF tasks = <<>> THEN <<>>
    ELSE IF Head(tasks).pid = pid THEN Tail(tasks)
    ELSE <<Head(tasks)>> \o RemoveTask(Tail(tasks), pid)

\* monitoringLoop: erase(remove_if(... pid not among current_pids ...))
RECURSIVE RemoveEnded(_, _)
RemoveEnded(tasks, current_pids) ==
    IF tasks = <<>> THEN <<>>
    ELSE IF Head(tasks).pid \in Range(current_pids)
         THEN <<Head(tasks)>> \o RemoveEnded(Tail(tasks), current_pids)
         ELSE RemoveEnded(Tail(tasks), current_pids)

\* A task is pushed back for every pid of the list, known or not.
AddDetectedMutWithoutExistsTest(tasks, current_pids) ==
    tasks \o [i \in 1..Len(current_pids) |-> DetectedTask(current_pids[i])]

\* monitoringLoop: for (int pid : current_pids) if (!exists) push_back(new_task)
RECURSIVE AddDetected(_, _)
AddDetected(tasks, current_pids) ==
    IF current_pids = <<>> THEN tasks
    ELSE AddDetected(AddTask(tasks, DetectedTask(Head(current_pids))),
                     Tail(current_pids))

\* What getRunningPIDs returns: the processes in the order of readdir.
RunningPidLists == {<<>>, <<1>>}

\* The priority of the scene's own app type is given to every task.
ScenePriorityMutIgnoresAppType(scene, app_type) ==
    CASE scene = SCENE_GAME         -> 10
      [] scene = SCENE_SOCIAL       -> 8
      [] scene = SCENE_MEDIA        -> 7
      [] scene = SCENE_PRODUCTIVITY -> 9
      [] OTHER                      -> 5

\* updateTaskPriorities: the switch on config_.current_scene
ScenePriority(scene, app_type) ==
    CASE scene = SCENE_GAME         -> IF app_type = "game" THEN 10 ELSE 5
      [] scene = SCENE_SOCIAL       -> IF app_type = "social" THEN 8 ELSE 3
      [] scene = SCENE_MEDIA        -> IF app_type = "media" THEN 7 ELSE 4
      [] scene = SCENE_PRODUCTIVITY -> IF app_type = "productivity" THEN 9 ELSE 6
      [] OTHER                      -> 5

updateTaskPriorities(tasks, scene) ==
    [i \in 1..Len(tasks) |->
        [tasks[i] EXCEPT !.priority = ScenePriority(scene, tasks[i].app_type)]]

\* setProcessPriority: clamped = max(0, min(priority, 19)); nice_val = 20 - clamped
NiceValue(priority) ==
    20 - (IF priority > 19 THEN 19 ELSE IF priority < 0 THEN 0 ELSE priority)

\* applySchedulingPolicies: setProcessPriority for every task, in order
RECURSIVE applySchedulingPolicies(_, _)
applySchedulingPolicies(tasks, nice) ==
    IF tasks = <<>> THEN nice
    ELSE applySchedulingPolicies(
            Tail(tasks),
            [nice EXCEPT ![Head(tasks).pid] = NiceValue(Head(tasks).priority)])

\* What getCPUUsage reads in a tick of mainLoop: the device is idle.
TickCpuReadings == {0}

\* The seconds a tick can have taken when the loop computes its sleep time.
ElapsedSeconds == {0, 5}

StartRejectedMutNever ==
    FALSE

\* start(): "if (running_) return false"
StartRejected ==
    running

StopReturnsAtOnceMutNever ==
    FALSE

\* stop(): "if (!running_) return"
StopReturnsAtOnce ==
    ~running

JoinReturnsMutAtOnce(thread_pc) ==
    TRUE

\* std::thread::join returns when the thread has left its function
JoinReturns(thread_pc) ==
    thread_pc = "exited"

\* A call of start or stop that has returned, with the counters as it
\* leaves them.
Call(op, result, is_running, logs, joined, main_loops, monitor_loops) ==
    [op |-> op, result |-> result, running |-> is_running,
     shutdown_logs |-> logs, joins |-> joined,
     main_loops |-> main_loops, monitor_loops |-> monitor_loops]

LifecycleInit ==
    /\ running = FALSE
    /\ caller_pc = "idle"
    /\ main_pc = "none"
    /\ monitor_pc = "none"
    /\ tasks_mutex = "free"
    /\ config_mutex = "free"
    /\ active_tasks = <<>>
    /\ nice_values = [pid \in Pids |-> 0]
    /\ tick_metrics = FALSE
    /\ live_main_loops = 0
    /\ live_monitor_loops = 0
    /\ shutdown_logs = 0
    /\ joins = 0
    /\ calls = <<>>

\* ---- start() and stop() ----

\* start()
CallStart ==
    /\ caller_pc = "idle"
    /\ Len(calls) < MaxCalls
    /\ IF StartRejected \/ ~config.enable_engine
       THEN /\ calls' = Append(calls, Call("start", FALSE, running, shutdown_logs, joins,
                                             live_main_loops, live_monitor_loops))
            /\ UNCHANGED <<running, main_pc, monitor_pc, live_main_loops,
                           live_monitor_loops>>
       ELSE /\ running' = TRUE
            /\ main_pc' = "while"
            /\ monitor_pc' = "while"
            /\ live_main_loops' = live_main_loops + 1
            /\ live_monitor_loops' = live_monitor_loops + 1
            /\ calls' = Append(calls, Call("start", TRUE, TRUE, shutdown_logs, joins,
                                             live_main_loops + 1,
                                             live_monitor_loops + 1))
    /\ UNCHANGED <<caller_pc, tasks_mutex, config_mutex, active_tasks, nice_values,
                   tick_metrics, shutdown_logs, joins>>
    /\ UNCHANGED config
    /\ UNCHANGED notLifecycle

\* stop(): the test of running_ and "running_ = false"
CallStop ==
    /\ caller_pc = "idle"
    /\ Len(calls) < MaxCalls
    /\ IF StopReturnsAtOnce
       THEN /\ calls' = Append(calls, Call("stop", FALSE, running, shutdown_logs, joins,
                                             live_main_loops, live_monitor_loops))
            /\ UNCHANGED <<running, caller_pc>>
       ELSE /\ running' = FALSE
            /\ caller_pc' = "stop_notify_all"
            /\ UNCHANGED calls
    /\ UNCHANGED <<main_pc, monitor_pc, tasks_mutex, config_mutex, active_tasks,
                   nice_values, tick_metrics, live_main_loops, live_monitor_loops,
                   shutdown_logs, joins>>
    /\ UNCHANGED config
    /\ UNCHANGED notLifecycle

\* stop(): cv_.notify_all() wakes the threads that are blocked on cv_
StopNotifyAll ==
    /\ caller_pc = "stop_notify_all"
    /\ main_pc' = IF main_pc = "wait_blocked" THEN "wait_woken" ELSE main_pc
    /\ caller_pc' = "stop_join_main"
    /\ UNCHANGED <<running, monitor_pc, tasks_mutex, config_mutex, active_tasks,
                   nice_values, tick_metrics, live_main_loops, live_monitor_loops,
                   shutdown_logs, joins, calls>>
    /\ UNCHANGED config
    /\ UNCHANGED notLifecycle

\* stop(): if (main_thread_.joinable()) main_thread_.join()
StopJoinMain ==
    /\ caller_pc = "stop_join_main"
    /\ IF main_pc = "none"
       THEN UNCHANGED <<main_pc, joins>>
       ELSE /\ JoinReturns(main_pc)
            /\ main_pc' = IF main_pc = "exited" THEN "none" ELSE main_pc
            /\ joins' = joins + 1
    /\ caller_pc' = "stop_join_monitor"
    /\ UNCHANGED <<running, monitor_pc, tasks_mutex, config_mutex, active_tasks,
                   nice_values, tick_metrics, live_main_loops, live_monitor_loops,
                   shutdown_logs, calls>>
    /\ UNCHANGED config
    /\ UNCHANGED notLifecycle

\* stop(): if (monitor_thread_.joinable()) monitor_thread_.join()
StopJoinMonitor ==
    /\ caller_pc = "stop_join_monitor"
    /\ IF monitor_pc = "none"
       THEN UNCHANGED <<monitor_pc, joins>>
       ELSE /\ JoinReturns(monitor_pc)
            /\ monitor_pc' = IF monitor_pc = "exited" THEN "none" ELSE monitor_pc
            /\ joins' = joins + 1
    /\ caller_pc' = "stop_log"
    /\ UNCHANGED <<running, main_pc, tasks_mutex, config_mutex, active_tasks,
                   nice_values, tick_metrics, live_main_loops, live_monitor_loops,
                   shutdown_logs, calls>>
    /\ UNCHANGED config
    /\ UNCHANGED notLifecycle

\* stop(): the shutdown message, and the return
StopLog ==
    /\ caller_pc = "stop_log"
    /\ shutdown_logs' = shutdown_logs + 1
    /\ calls' = Append(calls, Call("stop", TRUE, running, shutdown_logs + 1, joins,
                                     live_main_loops, live_monitor_loops))
    /\ caller_pc' = "idle"
    /\ UNCHANGED <<running, main_pc, monitor_pc, tasks_mutex, config_mutex,
                   active_tasks, nice_values, tick_metrics, live_main_loops,
                   live_monitor_loops, joins>>
    /\ UNCHANGED config
    /\ UNCHANGED notLifecycle

\* ---- the public operations on the task list and the config ----

\* What a step of the caller leaves alone, apart from its own position, the
\* mutexes and the task list.
CallerFrame ==
    /\ UNCHANGED <<running, main_pc, monitor_pc, nice_values, tick_metrics,
                   live_main_loops, live_monitor_loops, shutdown_logs, joins, calls>>
    /\ UNCHANGED notLifecycle

\* addTask / removeTask: std::lock_guard<std::mutex> lock(tasks_mutex_)
CallerLockTasks(operation) ==
    /\ caller_pc = "idle"
    /\ tasks_mutex = "free"
    /\ tasks_mutex' = "caller"
    /\ caller_pc' = operation
    /\ UNCHANGED <<config_mutex, active_tasks>>
    /\ UNCHANGED config
    /\ CallerFrame

\* addTask(task), under the lock
addTask(pid) ==
    /\ caller_pc = "addTask_locked"
    /\ active_tasks' = AddTask(active_tasks, CallerTask(pid))
    /\ tasks_mutex' = "free"
    /\ caller_pc' = "idle"
    /\ UNCHANGED config_mutex
    /\ UNCHANGED config
    /\ CallerFrame

\* removeTask(pid), under the lock
removeTask(pid) ==
    /\ caller_pc = "removeTask_locked"
    /\ active_tasks' = RemoveTask(active_tasks, pid)
    /\ tasks_mutex' = "free"
    /\ caller_pc' = "idle"
    /\ UNCHANGED config_mutex
    /\ UNCHANGED config
    /\ CallerFrame

\* getWebUIStatus(): running_ has been read, config_.current_scene is next
CallGetWebUIStatus ==
    /\ caller_pc = "idle"
    /\ caller_pc' = "getWebUIStatus_current_scene"
    /\ UNCHANGED <<tasks_mutex, config_mutex, active_tasks>>
    /\ UNCHANGED config
    /\ CallerFrame

\* getWebUIStatus(): config_.current_scene is read, active_tasks_.size() is next
StatusReadScene ==
    /\ caller_pc = "getWebUIStatus_current_scene"
    /\ caller_pc' = "getWebUIStatus_active_tasks"
    /\ UNCHANGED <<tasks_mutex, config_mutex, active_tasks>>
    /\ UNCHANGED config
    /\ CallerFrame

\* getWebUIStatus(): active_tasks_.size() is read, and the rest of the status
StatusReadTasks ==
    /\ caller_pc = "getWebUIStatus_active_tasks"
    /\ caller_pc' = "idle"
    /\ UNCHANGED <<tasks_mutex, config_mutex, active_tasks>>
    /\ UNCHANGED config
    /\ CallerFrame

\* setScenePreference: std::lock_guard<std::mutex> lock(config_mutex_)
CallSetScenePreference ==
    /\ caller_pc = "idle"
    /\ config.current_scene = SCENE_UNKNOWN
    /\ config_mutex = "free"
    /\ config_mutex' = "caller"
    /\ caller_pc' = "setScenePreference_locked"
    /\ UNCHANGED <<tasks_mutex, active_tasks>>
    /\ UNCHANGED config
    /\ CallerFrame

\* setScenePreference(SCENE_GAME), under the lock
setScenePreference ==
    /\ caller_pc = "setScenePreference_locked"
    /\ SetScenePreference(SCENE_GAME)
    /\ config_mutex' = "free"
    /\ caller_pc' = "idle"
    /\ UNCHANGED <<tasks_mutex, active_tasks>>
    /\ CallerFrame

\* ---- mainLoop ----

\* What a step of mainLoop leaves alone, apart from its own position, the
\* mutex of the task list, the task list, the nice values, the metrics of
\* the tick, the count of the loops and the history.
MainFrame ==
    /\ UNCHANGED <<running, caller_pc, monitor_pc, config_mutex,
                   live_monitor_loops, shutdown_logs, joins, calls>>
    /\ UNCHANGED config
    /\ UNCHANGED notLifecycleNorCES

\* while (running_)
MainWhile ==
    /\ main_pc = "while"
    /\ IF running
       THEN /\ main_pc' = "performScheduling"
            /\ tick_metrics' = FALSE
            /\ UNCHANGED live_main_loops
       ELSE /\ main_pc' = "exited"
            /\ live_main_loops' = live_main_loops - 1
            /\ UNCHANGED tick_metrics
    /\ UNCHANGED <<tasks_mutex, active_tasks, nice_values, cesVars>>
    /\ MainFrame

\* performScheduling(): if (!config_.optimization_enabled) return
MainPerformScheduling ==
    /\ main_pc = "performScheduling"
    /\ main_pc' = IF config.optimization_enabled
                  THEN "updateTaskPriorities" ELSE "getCurrentMetrics"
    /\ UNCHANGED <<tasks_mutex, active_tasks, nice_values, tick_metrics,
                   live_main_loops, cesVars>>
    /\ MainFrame

\* std::lock_guard<std::mutex> lock(tasks_mutex_) in updateTaskPriorities, in
\* applySchedulingPolicies and before cv_.wait_for
MainLockTasks(from, to) ==
    /\ main_pc = from
    /\ tasks_mutex = "free"
    /\ tasks_mutex' = "main"
    /\ main_pc' = to
    /\ UNCHANGED <<active_tasks, nice_values, tick_metrics, live_main_loops,
                   cesVars>>
    /\ MainFrame

\* updateTaskPriorities(), under the lock
MainUpdateTaskPriorities ==
    /\ main_pc = "updateTaskPriorities_locked"
    /\ active_tasks' = updateTaskPriorities(active_tasks, config.current_scene)
    /\ tasks_mutex' = "free"
    /\ main_pc' = "applySchedulingPolicies"
    /\ UNCHANGED <<nice_values, tick_metrics, live_main_loops, cesVars>>
    /\ MainFrame

\* applySchedulingPolicies(), under the lock
MainApplySchedulingPolicies ==
    /\ main_pc = "applySchedulingPolicies_locked"
    /\ nice_values' = applySchedulingPolicies(active_tasks, nice_values)
    /\ tasks_mutex' = "free"
    /\ main_pc' = "getCurrentMetrics"
    /\ UNCHANGED <<active_tasks, tick_metrics, live_main_loops, cesVars>>
    /\ MainFrame

\* auto metrics = getCurrentMetrics(); and the history: the oldest entry is
\* erased when the history is full, and the metrics are pushed back.
MainRecordMetrics(cpu) ==
    /\ main_pc = "getCurrentMetrics"
    /\ tick_metrics' = TRUE
    /\ performance_history' =
          AddToHistory(performance_history, getCurrentMetrics(cpu, 0, 0))
    /\ history_erased' = HistoryFull(performance_history)
    /\ main_pc' = "sleep_time"
    /\ UNCHANGED <<tasks_mutex, active_tasks, nice_values, live_main_loops>>
    /\ MainFrame

\* sleep_time = seconds(config_.scheduling_interval) - elapsed;
\* if (sleep_time.count() > 0) { lock; cv_.wait_for(...) }
MainSleepTime(elapsed) ==
    /\ main_pc = "sleep_time"
    /\ main_pc' = IF config.scheduling_interval - elapsed > 0
                  THEN "wait_for" ELSE "while"
    /\ UNCHANGED <<tasks_mutex, active_tasks, nice_values, tick_metrics,
                   live_main_loops, cesVars>>
    /\ MainFrame

\* cv_.wait_for(lock, sleep_time, [this] { return !running_; }): the
\* predicate is tested under the lock; when it is true wait_for returns and
\* the lock is given back.
MainWaitPredicate ==
    /\ main_pc = "wait_predicate"
    /\ IF ~running
       THEN /\ tasks_mutex' = "free"
            /\ main_pc' = "while"
       ELSE /\ main_pc' = "wait_until"
            /\ UNCHANGED tasks_mutex
    /\ UNCHANGED <<active_tasks, nice_values, tick_metrics, live_main_loops,
                   cesVars>>
    /\ MainFrame

\* The thread blocks on cv_ and keeps the lock.
MainWaitBlockMutKeepsLock ==
    /\ main_pc = "wait_until"
    /\ main_pc' = "wait_blocked"
    /\ UNCHANGED <<tasks_mutex, active_tasks, nice_values, tick_metrics,
                   live_main_loops, cesVars>>
    /\ MainFrame

\* When the predicate was false, the thread gives the lock back and blocks
\* on cv_, in one step.
MainWaitBlock ==
    /\ main_pc = "wait_until"
    /\ tasks_mutex' = "free"
    /\ main_pc' = "wait_blocked"
    /\ UNCHANGED <<active_tasks, nice_values, tick_metrics, live_main_loops,
                   cesVars>>
    /\ MainFrame

\* The sleep time runs out while the thread is blocked.
MainWaitTimeout ==
    /\ main_pc = "wait_blocked"
    /\ main_pc' = "wait_timed_out"
    /\ UNCHANGED <<tasks_mutex, active_tasks, nice_values, tick_metrics,
                   live_main_loops, cesVars>>
    /\ MainFrame

\* After the timeout the lock is taken again and wait_for returns.
MainWaitReturn ==
    /\ main_pc = "wait_timed_out"
    /\ tasks_mutex = "free"
    /\ main_pc' = "while"
    /\ UNCHANGED <<tasks_mutex, active_tasks, nice_values, tick_metrics,
                   live_main_loops, cesVars>>
    /\ MainFrame

MainStep ==
    \/ MainWhile
    \/ MainPerformScheduling
    \/ MainLockTasks("updateTaskPriorities", "updateTaskPriorities_locked")
    \/ MainUpdateTaskPriorities
    \/ MainLockTasks("applySchedulingPolicies", "applySchedulingPolicies_locked")
    \/ MainApplySchedulingPolicies
    \/ \E cpu \in TickCpuReadings : MainRecordMetrics(cpu)
    \/ \E elapsed \in ElapsedSeconds : MainSleepTime(elapsed)
    \/ MainLockTasks("wait_for", "wait_predicate")
    \/ MainWaitPredicate
    \/ MainWaitBlock
    \/ MainWaitTimeout
    \/ MainWaitReturn
    \/ MainLockTasks("wait_woken", "wait_predicate")

\* ---- monitoringLoop ----

MonitorFrame ==
    /\ UNCHANGED <<running, caller_pc, main_pc, config_mutex, nice_values,
                   tick_metrics, live_main_loops, shutdown_logs, joins, calls>>
    /\ UNCHANGED config
    /\ UNCHANGED notLifecycle

\* while (running_)
MonitorWhile ==
    /\ monitor_pc = "while"
    /\ IF running
       THEN /\ monitor_pc' = "getRunningPIDs"
            /\ UNCHANGED live_monitor_loops
       ELSE /\ monitor_pc' = "exited"
            /\ live_monitor_loops' = live_monitor_loops - 1
    /\ UNCHANGED <<tasks_mutex, active_tasks>>
    /\ MonitorFrame

\* auto current_pids = getRunningPIDs(); std::lock_guard lock(tasks_mutex_)
MonitorLockTasks ==
    /\ monitor_pc = "getRunningPIDs"
    /\ tasks_mutex = "free"
    /\ tasks_mutex' = "monitor"
    /\ monitor_pc' = "reconcile_locked"
    /\ UNCHANGED <<active_tasks, live_monitor_loops>>
    /\ MonitorFrame

\* The ended tasks are erased and the new processes are added, under the lock.
MonitorReconcile(current_pids) ==
    /\ monitor_pc = "reconcile_locked"
    /\ active_tasks' = AddDetected(RemoveEnded(active_tasks, current_pids), current_pids)
    /\ tasks_mutex' = "free"
    /\ monitor_pc' = "sleep_for"
    /\ UNCHANGED live_monitor_loops
    /\ MonitorFrame

\* std::this_thread::sleep_for(std::chrono::seconds(5)) ends when the five
\* seconds are over.
MonitorSleepEnds ==
    /\ monitor_pc = "sleep_for"
    /\ monitor_pc' = "while"
    /\ UNCHANGED <<tasks_mutex, active_tasks, live_monitor_loops>>
    /\ MonitorFrame

MonitorStep ==
    \/ MonitorWhile
    \/ MonitorLockTasks
    \/ \E current_pids \in RunningPidLists : MonitorReconcile(current_pids)
    \/ MonitorSleepEnds

\* The steps in which a call of stop goes on.
StopStep ==
    \/ StopNotifyAll
    \/ StopJoinMain
    \/ StopJoinMonitor
    \/ StopLog

NextLifecycle ==
    \/ CallStart
    \/ CallStop
    \/ StopStep
    \/ CallerLockTasks("addTask_locked")
    \/ \E pid \in Pids : addTask(pid)
    \/ CallerLockTasks("removeTask_locked")
    \/ \E pid \in Pids : removeTask(pid)
    \/ CallGetWebUIStatus
    \/ StatusReadScene
    \/ StatusReadTasks
    \/ CallSetScenePreference
    \/ setScenePreference
    \/ MainStep
    \/ MonitorStep

\* The engine with a caller that only starts and stops it.
NextStartStop ==
    \/ CallStart
    \/ CallStop
    \/ StopStep
    \/ MainStep
    \/ MonitorStep

\* The threads run and time passes: a step of a loop or of stop that can be
\* taken is taken.
LifecycleFairness ==
    /\ WF_vars(MainStep)
    /\ WF_vars(MonitorStep)
    /\ WF_vars(StopStep)

-----------------------------------------------------------------------------
(* PopulationEvolutionManager: evolveGeneration on the evolution thread,   *)
(* step by step, and getCurrentPopulation / getBestIndividual on another   *)
(* thread.  The class has no mutex: its members are population_size_,      *)
(* population_, current_generation_, fitness_function_ and rng_.           *)

ReaderInit ==
    /\ evolve_pc = 0
    /\ generation_population = population
    /\ last_read = [kind |-> "none", value |-> <<>>, old |-> <<>>]

\* What a step of evolveGeneration or of a reader leaves alone.
ReaderFrame ==
    /\ UNCHANGED <<population_size, evolution_call, generation_before>>
    /\ UNCHANGED config
    /\ UNCHANGED notReaderNorEvolution

\* evolveGeneration() is entered.
BeginEvolveGeneration ==
    /\ evolve_pc = 0
    /\ current_generation < MaxGenerations
    /\ evolve_pc' = 1
    /\ generation_population' = population
    /\ UNCHANGED <<population, current_generation, last_read>>
    /\ ReaderFrame

\* for (auto& individual : population_) if (individual.is_valid)
\*     individual.fitness_score = fitness_function_->calculateFitness(...)
EvaluateIndividual(fitness) ==
    /\ evolve_pc \in 1..Len(population)
    /\ population' = IF population[evolve_pc].is_valid
                     THEN [population EXCEPT ![evolve_pc].fitness_score = fitness]
                     ELSE population
    /\ evolve_pc' = evolve_pc + 1
    /\ UNCHANGED <<current_generation, generation_population, last_read>>
    /\ ReaderFrame

\* The genetic operations replace the population, and current_generation_++.
ReplacePopulation ==
    /\ evolve_pc = Len(population) + 1
    /\ \E p1 \in 1..Len(population), p2 \in 1..Len(population),
          perturbation \in [1..(Len(population) - 1) -> Perturbations] :
          LET offspring == [k \in 1..(Len(population) - 1) |->
                               mutate(crossover(population[p1], population[p2],
                                                current_generation + 1),
                                      perturbation[k])]
          IN  population' = NextPopulation(population[BestIndex(population)], offspring)
    /\ current_generation' = current_generation + 1
    /\ generation_population' = population'
    /\ evolve_pc' = 0
    /\ UNCHANGED last_read
    /\ ReaderFrame

\* getCurrentPopulation() on another thread: a copy of population_
getCurrentPopulation ==
    /\ last_read' = [kind |-> "population", value |-> population,
                     old |-> generation_population]
    /\ UNCHANGED <<population, current_generation, evolve_pc, generation_population>>
    /\ ReaderFrame

\* getBestIndividual() on another thread
getBestIndividual ==
    /\ last_read' = [kind |-> "best", value |-> population[BestIndex(population)],
                     old |-> generation_population]
    /\ UNCHANGED <<population, current_generation, evolve_pc, generation_population>>
    /\ ReaderFrame

NextReaders ==
    \/ BeginEvolveGeneration
    \/ \E fitness \in FitnessValues : EvaluateIndividual(fitness)
    \/ ReplacePopulation
    \/ getCurrentPopulation
    \/ getBestIndividual

-----------------------------------------------------------------------------
(* Long-term evolution: the evolution loop, its history, and the data file. *)
(* The doubles of an entry are whole numbers here.  The population manager  *)
(* is seen through what updateEvolutionState reads from it: the fitness of  *)
(* the best individual, the average fitness and the diversity.              *)

\* "if (evolution_history_.size() > 100)": the limit, scaled down
EVOLUTION_HISTORY_LIMIT == 3

\* evolution_config_.max_generations_, scaled down
MaxEngineGenerations == 3

\* "evolution_history_.size() < 10" and "[evolution_history_.size() - 10]":
\* the 10 of checkEvolutionConvergence, scaled down
ConvergenceWindow == 2

\* 1 / convergence_threshold_ (1e-6)
InverseEvolutionConvergenceThreshold == 1000000

\* The evolution threads one run creates.
MaxEvolutionThreads == 2

\* The failures one loop sees in a run.
MaxTickErrors == 1

\* What getBestIndividual().fitness_score can be.
BestFitnessValues == {0, 5}

\* The average fitness and the diversity of the population.
PopulationStatistics == {[average_fitness |-> 3, diversity_score |-> 1]}

HistoryEntry(generation, best_fitness, statistics) ==
    [ generation      |-> generation,
      best_fitness    |-> best_fitness,
      average_fitness |-> statistics.average_fitness,
      diversity_score |-> statistics.diversity_score ]

\* A line of a data file, as characters.
LineGenerationOnly == <<"0">>
LineSpaceSeparated == <<"1", " ", "5", " ", "3", " ", "1">>

EvolutionDataLines == {LineGenerationOnly, LineSpaceSeparated}

RECURSIVE LinesOfLength(_)
LinesOfLength(n) ==
    IF n = 0 THEN {<<>>}
    ELSE { Append(lines, line) :
              lines \in LinesOfLength(n - 1), line \in EvolutionDataLines }

\* The data files a caller can name: one that cannot be opened, an empty
\* one, and files of a title line followed by up to
\* EVOLUTION_HISTORY_LIMIT + 1 data lines.
EvolutionDataFiles ==
    {[is_open |-> FALSE, title |-> FALSE, lines |-> <<>>],
     [is_open |-> TRUE, title |-> FALSE, lines |-> <<>>]}
    \cup { [is_open |-> TRUE, title |-> TRUE, lines |-> lines] :
              lines \in UNION { LinesOfLength(n) : n \in 0..(EVOLUTION_HISTORY_LIMIT + 1) } }

\* std::ctime's text for the timestamp, without the newline that ends it
\* (and with it the line).
TimestampText == <<"T", "h", "u">>

\* One line of saveEvolutionData: the four numbers and the timestamp, each
\* number followed by a comma.
SaveLine(entry) ==
    FormatInt(entry.generation) \o <<",">>
    \o FormatInt(entry.best_fitness) \o <<",">>
    \o FormatInt(entry.average_fitness) \o <<",">>
    \o FormatInt(entry.diversity_score) \o <<",">>
    \o TimestampText

\* saveEvolutionData(filepath): the file it writes
saveEvolutionData(history) ==
    [ is_open |-> TRUE,
      title   |-> TRUE,
      lines   |-> [i \in 1..Len(history) |-> SaveLine(history[i])] ]

\* operator>> skips leading whitespace.
RECURSIVE SkipWhitespace(_, _)
SkipWhitespace(line, pos) ==
    IF pos <= Len(line) /\ line[pos] \in Whitespace
    THEN SkipWhitespace(line, pos + 1)
    ELSE pos

\* operator>> of a number at position pos of the line: whether digits were
\* found, their value, and the position after them.
ExtractNumber(line, pos) ==
    LET start == SkipWhitespace(line, pos)
        negative == start <= Len(line) /\ line[start] = "-"
        first == IF start <= Len(line) /\ line[start] \in {"+", "-"}
                 THEN start + 1 ELSE start
        end == DigitsEnd(line, first)
        magnitude == DigitsValue(line, first, end, 0)
    IN  [ ok   |-> end > first,
          val  |-> IF end > first
                   THEN (IF negative THEN -magnitude ELSE magnitude)
                   ELSE 0,
          next |-> end ]

\* "EvolutionHistory history; ss >> history.generation >>
\* history.best_fitness >> history.average_fitness >>
\* history.diversity_score;": an extraction that finds no number stores 0
\* and fails the stream; the extractions after it store nothing, and the
\* field keeps the indeterminate value the declaration left in it.
ParseLine(line, indeterminate) ==
    LET generation == ExtractNumber(line, 1)
        best == ExtractNumber(line, generation.next)
        average == ExtractNumber(line, best.next)
        diversity == ExtractNumber(line, average.next)
        ok1 == generation.ok
        ok2 == ok1 /\ best.ok
        ok3 == ok2 /\ average.ok
    IN  [ generation      |-> generation.val,
          best_fitness    |-> IF ok1 THEN best.val ELSE indeterminate,
          average_fitness |-> IF ok2 THEN average.val ELSE indeterminate,
          diversity_score |-> IF ok3 THEN diversity.val ELSE indeterminate ]

NoSave == [saved |-> FALSE, history |-> <<>>, loaded |-> FALSE]

NewCycle == [steps |-> <<>>, generation |-> 0, appended |-> -1]

HistoryInit ==
    /\ evolution_active = FALSE
    /\ engine_generation = 0
    /\ evolution_history = <<>>
    /\ evolution_threads = <<>>
    /\ game_running = FALSE
    /\ saved_evolution = NoSave
    /\ tick_errors = [main |-> 0, monitor |-> 0, evolution |-> 0]

\* updateEvolutionState(): nothing when the evolution is not active; else
\* the entry is pushed back and, when the size exceeds the limit, the first
\* entry is erased.
updateEvolutionState(history, active, generation, best_fitness, statistics) ==
    IF ~active THEN history
    ELSE LET pushed == Append(history, HistoryEntry(generation, best_fitness, statistics))
         IN  IF Len(pushed) > EVOLUTION_HISTORY_LIMIT THEN Tail(pushed) ELSE pushed

\* loadEvolutionData(filepath): nothing when the file cannot be opened; else
\* the title line is skipped, the history is cleared, and every further line
\* of the file pushes one entry.
loadEvolutionData(history, file, indeterminate) ==
    IF ~file.is_open THEN history
    ELSE [i \in 1..Len(file.lines) |-> ParseLine(file.lines[i], indeterminate)]

AbsDifference(a, b) ==
    IF a >= b THEN a - b ELSE b - a

\* checkEvolutionConvergence(): the value it leaves in evolution_active_
checkEvolutionConvergence(history, active) ==
    IF Len(history) < ConvergenceWindow THEN active
    ELSE LET recent_best == history[Len(history)].best_fitness
             previous_best == history[Len(history) - ConvergenceWindow + 1].best_fitness
         IN  IF AbsDifference(recent_best, previous_best)
                    * InverseEvolutionConvergenceThreshold < 1
             THEN FALSE
             ELSE active

\* The evolution loops that have not returned.
RunningEvolutionLoops ==
    {t \in 1..Len(evolution_threads) : evolution_threads[t].pc # "returned"}

\* startLongTermEvolution(): returns at once when evolution_active_ is set;
\* else sets it, resets current_generation_ and detaches a thread that runs
\* evolutionMainLoop.
startLongTermEvolution ==
    /\ Len(evolution_threads) < MaxEvolutionThreads
    /\ IF evolution_active
       THEN UNCHANGED <<evolution_active, engine_generation, evolution_threads>>
       ELSE /\ evolution_active' = TRUE
            /\ engine_generation' = 0
            /\ evolution_threads' =
                  Append(evolution_threads, [pc |-> "while", cycle |-> NewCycle])
    /\ UNCHANGED <<evolution_history, game_running, saved_evolution, tick_errors>>
    /\ UNCHANGED config
    /\ UNCHANGED notHistory

\* stopLongTermEvolution()
stopLongTermEvolution ==
    /\ evolution_active' = FALSE
    /\ UNCHANGED <<engine_generation, evolution_history, evolution_threads,
                   game_running, saved_evolution, tick_errors>>
    /\ UNCHANGED config
    /\ UNCHANGED notHistory

\* startRepeatedGame()
startRepeatedGame ==
    /\ game_running' = TRUE
    /\ UNCHANGED <<evolution_active, engine_generation, evolution_history,
                   evolution_threads, saved_evolution, tick_errors>>
    /\ UNCHANGED config
    /\ UNCHANGED notHistory

\* stopRepeatedGame()
stopRepeatedGame ==
    /\ game_running' = FALSE
    /\ UNCHANGED <<evolution_active, engine_generation, evolution_history,
                   evolution_threads, saved_evolution, tick_errors>>
    /\ UNCHANGED config
    /\ UNCHANGED notHistory

\* What a step of an evolution thread leaves alone.
EvolutionThreadFrame ==
    /\ UNCHANGED <<game_running, saved_evolution>>
    /\ UNCHANGED config
    /\ UNCHANGED notHistory

\* "while (evolution_active_ && current_generation_ < max_generations_)"
EvolutionLoopTest(t) ==
    /\ evolution_threads[t].pc = "while"
    /\ evolution_threads' =
          [evolution_threads EXCEPT
              ![t] = IF evolution_active /\ engine_generation < MaxEngineGenerations
                     THEN [pc |-> "performGeneticOperations", cycle |-> NewCycle]
                     ELSE [pc |-> "returned", cycle |-> NewCycle]]
    /\ UNCHANGED <<evolution_active, engine_generation, evolution_history, tick_errors>>
    /\ EvolutionThreadFrame

\* "performGeneticOperations(); current_generation_++;"
EvolutionLoopGeneration(t) ==
    /\ evolution_threads[t].pc = "performGeneticOperations"
    /\ engine_generation' = engine_generation + 1
    /\ evolution_threads' =
          [evolution_threads EXCEPT
              ![t].pc = "updateEvolutionState",
              ![t].cycle.steps = Append(@, "evolveGeneration"),
              ![t].cycle.generation = engine_generation + 1]
    /\ UNCHANGED <<evolution_active, evolution_history, tick_errors>>
    /\ EvolutionThreadFrame

\* "updateEvolutionState();"
EvolutionLoopUpdate(t, best_fitness, statistics) ==
    /\ evolution_threads[t].pc = "updateEvolutionState"
    /\ evolution_history' =
          updateEvolutionState(evolution_history, evolution_active,
                               engine_generation, best_fitness, statistics)
    /\ evolution_threads' =
          [evolution_threads EXCEPT
              ![t].pc = "simulateGameRound",
              ![t].cycle.steps = IF evolution_active THEN Append(@, "push_back") ELSE @,
              ![t].cycle.appended = IF evolution_active THEN engine_generation ELSE @]
    /\ UNCHANGED <<evolution_active, engine_generation, tick_errors>>
    /\ EvolutionThreadFrame

\* "simulateGameRound();": "if (!game_manager_ || !game_running_) return;"
\* comes before the round.
EvolutionLoopGameRound(t) ==
    /\ evolution_threads[t].pc = "simulateGameRound"
    /\ evolution_threads' =
          [evolution_threads EXCEPT
              ![t].pc = "checkEvolutionConvergence",
              ![t].cycle.steps = IF game_running THEN Append(@, "simulateRound") ELSE @]
    /\ UNCHANGED <<evolution_active, engine_generation, evolution_history, tick_errors>>
    /\ EvolutionThreadFrame

\* "checkEvolutionConvergence();", then the thread sleeps 30 seconds.
EvolutionLoopConvergence(t) ==
    /\ evolution_threads[t].pc = "checkEvolutionConvergence"
    /\ evolution_active' = checkEvolutionConvergence(evolution_history, evolution_active)
    /\ evolution_threads' =
          [evolution_threads EXCEPT
              ![t].pc = "sleep_for",
              ![t].cycle.steps = Append(@, "checkEvolutionConvergence")]
    /\ UNCHANGED <<engine_generation, evolution_history, tick_errors>>
    /\ EvolutionThreadFrame

\* The sleep of the thread ends.
EvolutionLoopWakes(t) ==
    /\ evolution_threads[t].pc = "sleep_for"
    /\ evolution_threads' = [evolution_threads EXCEPT ![t].pc = "while"]
    /\ UNCHANGED <<evolution_active, engine_generation, evolution_history, tick_errors>>
    /\ EvolutionThreadFrame

\* updateEvolutionState() called from outside the loop
CallUpdateEvolutionState(best_fitness, statistics) ==
    /\ evolution_history' =
          updateEvolutionState(evolution_history, evolution_active,
                               engine_generation, best_fitness, statistics)
    /\ saved_evolution' = [saved_evolution EXCEPT !.loaded = FALSE]
    /\ UNCHANGED <<evolution_active, engine_generation, evolution_threads,
                   game_running, tick_errors>>
    /\ UNCHANGED config
    /\ UNCHANGED notHistory

\* saveEvolutionData(filepath)
CallSaveEvolutionData ==
    /\ ~saved_evolution.saved
    /\ saved_evolution' = [saved |-> TRUE, history |-> evolution_history, loaded |-> FALSE]
    /\ UNCHANGED <<evolution_active, engine_generation, evolution_history,
                   evolution_threads, game_running, tick_errors>>
    /\ UNCHANGED config
    /\ UNCHANGED notHistory

\* loadEvolutionData(filepath) of a file written by hand
CallLoadEvolutionData(file, indeterminate) ==
    /\ evolution_history' = loadEvolutionData(evolution_history, file, indeterminate)
    /\ saved_evolution' = [saved_evolution EXCEPT !.loaded = FALSE]
    /\ UNCHANGED <<evolution_active, engine_generation, evolution_threads,
                   game_running, tick_errors>>
    /\ UNCHANGED config
    /\ UNCHANGED notHistory

\* loadEvolutionData(filepath) of the file saveEvolutionData wrote
CallLoadSavedEvolutionData(indeterminate) ==
    /\ saved_evolution.saved
    /\ evolution_history' =
          loadEvolutionData(evolution_history,
                            saveEvolutionData(saved_evolution.history), indeterminate)
    /\ saved_evolution' = [saved_evolution EXCEPT !.loaded = TRUE]
    /\ UNCHANGED <<evolution_active, engine_generation, evolution_threads,
                   game_running, tick_errors>>
    /\ UNCHANGED config
    /\ UNCHANGED notHistory

NextEvolutionThreads ==
    \E t \in 1..Len(evolution_threads) :
        \/ EvolutionLoopTest(t)
        \/ EvolutionLoopGeneration(t)
        \/ \E best_fitness \in BestFitnessValues, statistics \in PopulationStatistics :
              EvolutionLoopUpdate(t, best_fitness, statistics)
        \/ EvolutionLoopGameRound(t)
        \/ EvolutionLoopConvergence(t)
        \/ EvolutionLoopWakes(t)

NextHistory ==
    \/ startLongTermEvolution
    \/ stopLongTermEvolution
    \/ \E best_fitness \in BestFitnessValues, statistics \in PopulationStatistics :
          CallUpdateEvolutionState(best_fitness, statistics)
    \/ \E file \in EvolutionDataFiles, indeterminate \in IndeterminateDoubles :
          CallLoadEvolutionData(file, indeterminate)

NextEvolutionData ==
    \/ startLongTermEvolution
    \/ stopLongTermEvolution
    \/ \E best_fitness \in BestFitnessValues, statistics \in PopulationStatistics :
          CallUpdateEvolutionState(best_fitness, statistics)
    \/ CallSaveEvolutionData
    \/ \E indeterminate \in IndeterminateDoubles :
          CallLoadSavedEvolutionData(indeterminate)

NextOrchestrator ==
    \/ startLongTermEvolution
    \/ stopLongTermEvolution
    \/ startRepeatedGame
    \/ stopRepeatedGame
    \/ NextEvolutionThreads

-----------------------------------------------------------------------------
(* Failures inside a tick.  The body of each of the three loops is a try    *)
(* block with the handler "catch (const std::exception& e)"; what the body  *)
(* calls throws nothing that is not derived from std::exception.  A failure *)
(* can come at any statement of the body: the statements before it have     *)
(* been executed.                                                           *)

\* The failure is not caught: it leaves the thread function.
PcAfterTickFailureMutEndsThread(resume) ==
    "terminated"

\* "catch (const std::exception& e) { logError(...); }": the handler logs
\* and the thread goes on at the statement after the try block, which is
\* the wait of the loop.
PcAfterTickFailure(resume) ==
    resume

\* The positions of mainLoop inside its try block.
MainTryPcs ==
    {"performScheduling", "updateTaskPriorities", "updateTaskPriorities_locked",
     "applySchedulingPolicies", "applySchedulingPolicies_locked", "getCurrentMetrics"}

\* The positions of monitoringLoop inside its try block.
MonitorTryPcs == {"getRunningPIDs", "reconcile_locked"}

\* The positions of evolutionMainLoop inside its try block.
EvolutionTryPcs ==
    {"performGeneticOperations", "updateEvolutionState", "simulateGameRound",
     "checkEvolutionConvergence"}

\* What a failure in mainLoop or monitoringLoop leaves alone.
TickFailureFrame ==
    /\ UNCHANGED <<running, caller_pc, config_mutex, nice_values, tick_metrics,
                   live_main_loops, live_monitor_loops, shutdown_logs, joins, calls>>
    /\ UNCHANGED <<evolution_active, engine_generation, evolution_history,
                   evolution_threads, game_running, saved_evolution>>
    /\ UNCHANGED config
    /\ UNCHANGED notLifecycleNorHistory

\* A failure in the try block of mainLoop: the lock_guard of the function
\* that failed gives tasks_mutex_ back while the stack is unwound.
MainThrows ==
    /\ main_pc \in MainTryPcs
    /\ tick_errors.main < MaxTickErrors
    /\ tasks_mutex' = IF tasks_mutex = "main" THEN "free" ELSE tasks_mutex
    /\ main_pc' = PcAfterTickFailure("sleep_time")
    /\ tick_errors' = [tick_errors EXCEPT !.main = @ + 1]
    /\ UNCHANGED <<monitor_pc, active_tasks>>
    /\ TickFailureFrame

\* A failure in the try block of monitoringLoop; under the lock the ended
\* tasks may have been erased already.
MonitorThrows(current_pids) ==
    /\ monitor_pc \in MonitorTryPcs
    /\ tick_errors.monitor < MaxTickErrors
    /\ active_tasks' = IF monitor_pc = "reconcile_locked"
                       THEN RemoveEnded(active_tasks, current_pids)
                       ELSE active_tasks
    /\ tasks_mutex' = IF tasks_mutex = "monitor" THEN "free" ELSE tasks_mutex
    /\ monitor_pc' = PcAfterTickFailure("sleep_for")
    /\ tick_errors' = [tick_errors EXCEPT !.monitor = @ + 1]
    /\ UNCHANGED main_pc
    /\ TickFailureFrame

\* A failure in the try block of evolutionMainLoop: the handler logs and
\* sleeps 5 seconds.
EvolutionLoopThrows(t) ==
    /\ evolution_threads[t].pc \in EvolutionTryPcs
    /\ tick_errors.evolution < MaxTickErrors
    /\ evolution_threads' =
          [evolution_threads EXCEPT
              ![t].pc = PcAfterTickFailure("sleep_for"),
              ![t].cycle.steps = Append(@, "exception")]
    /\ tick_errors' = [tick_errors EXCEPT !.evolution = @ + 1]
    /\ UNCHANGED <<evolution_active, engine_generation, evolution_history>>
    /\ EvolutionThreadFrame

\* The three loops with failures.  The engine loops and the evolution loop
\* share no state, and a run has either the engine started and stopped or
\* the evolution started and stopped.
NextTickFailures ==
    \/ evolution_threads = <<>> /\ CallStart
    \/ CallStop
    \/ StopStep
    \/ MainStep
    \/ MonitorStep
    \/ MainThrows
    \/ \E current_pids \in RunningPidLists : MonitorThrows(current_pids)
    \/ calls = <<>> /\ startLongTermEvolution
    \/ stopLongTermEvolution
    \/ NextEvolutionThreads
    \/ \E t \in 1..Len(evolution_threads) : EvolutionLoopThrows(t)

-----------------------------------------------------------------------------
(* main: the engine is created, the config is loaded, the engine is started *)

\* main: "if (!g_engine->start()) return 1;" after loadConfig has returned
MainStart ==
    /\ load_pc = "returned"
    /\ IF StartRejected \/ ~config.enable_engine
       THEN /\ load_pc' = "start_failed"
            /\ calls' = Append(calls, Call("start", FALSE, running, shutdown_logs, joins,
                                             live_main_loops, live_monitor_loops))
            /\ UNCHANGED <<running, main_pc, monitor_pc, live_main_loops,
                           live_monitor_loops>>
       ELSE /\ load_pc' = "started"
            /\ running' = TRUE
            /\ main_pc' = "while"
            /\ monitor_pc' = "while"
            /\ live_main_loops' = live_main_loops + 1
            /\ live_monitor_loops' = live_monitor_loops + 1
            /\ calls' = Append(calls, Call("start", TRUE, TRUE, shutdown_logs, joins,
                                             live_main_loops + 1,
                                             live_monitor_loops + 1))
    /\ UNCHANGED <<caller_pc, tasks_mutex, config_mutex, active_tasks, nice_values,
                   tick_metrics, shutdown_logs, joins>>
    /\ UNCHANGED <<config_file, config_file_exists, load_log, saved_config>>
    /\ UNCHANGED config
    /\ UNCHANGED notLoadNorLifecycle

NextMain ==
    \/ NextLoad
    \/ MainStart

-----------------------------------------------------------------------------
(* The task registry through the public interface: addTask, removeTask,   *)
(* applyCTOConfig, detectCurrentScene and one pass of                      *)
(* applySchedulingPolicies.  Each call takes tasks_mutex_ (applyCTOConfig: *)
(* config_mutex_) for its whole body, so with one caller it is one step.   *)

RegistryPids == {1, 2}

AppTypes == {"game", "social", "media", "productivity", "unknown"}

\* The tasks a caller registers for a pid: runTest gives priority 5.
RegistryTasks ==
    { [pid |-> pid, priority |-> 5, app_type |-> app_type,
       is_foreground |-> is_foreground] :
         pid \in RegistryPids, app_type \in AppTypes, is_foreground \in BOOLEAN }

\* struct CTOConfig: the two flags that applySchedulingPolicies and
\* bindTaskToCore read.
CTOConfigs ==
    [enable_task_binding : BOOLEAN, enable_cpu_affinity : BOOLEAN]

\* config_.cto_config has no initializer: until applyCTOConfig has been
\* called its flags are indeterminate, and a read can give either value.
IndeterminateCTOConfig ==
    [assigned |-> FALSE, enable_task_binding |-> FALSE, enable_cpu_affinity |-> FALSE]

CTOConfigsRead(cto) ==
    IF ~cto.assigned THEN CTOConfigs
    ELSE {[enable_task_binding |-> cto.enable_task_binding,
           enable_cpu_affinity |-> cto.enable_cpu_affinity]}

\* device_info_.cpu_cores: the device of the registry has four cores.
DeviceCpuCores == {4}

\* What setpriority and sched_setaffinity return for one task:
\* TRUE for 0, FALSE for -1.
SyscallOutcomes == [priority_ok : BOOLEAN, affinity_ok : BOOLEAN]

\* What getRunningPIDs returns in a tick of monitoringLoop.
RegistryRunningPids == {<<>>, <<1>>, <<2>>, <<1, 2>>, <<2, 1>>}

NoCall ==
    [ op             |-> "none",
      pid            |-> 0,
      current_pids   |-> <<>>,
      tasks          |-> <<>>,
      scene          |-> SCENE_UNKNOWN,
      priority_calls |-> <<>>,
      binding_calls  |-> <<>>,
      error_logs     |-> 0,
      outcomes       |-> <<>>,
      flags          |-> [enable_task_binding |-> FALSE, enable_cpu_affinity |-> FALSE] ]

RegistryInit ==
    /\ cto_config = IndeterminateCTOConfig
    /\ last_call = NoCall

\* Only the first task of the registry is looked at.
detectCurrentSceneMutFirstTaskOnly(tasks) ==
    IF tasks = <<>> \/ ~Head(tasks).is_foreground THEN SCENE_UNKNOWN
    ELSE CASE Head(tasks).app_type = "game" -> SCENE_GAME
           [] Head(tasks).app_type = "social" -> SCENE_SOCIAL
           [] Head(tasks).app_type = "media" -> SCENE_MEDIA
           [] Head(tasks).app_type = "productivity" -> SCENE_PRODUCTIVITY
           [] OTHER -> SCENE_UNKNOWN

\* detectCurrentScene(): the scan of active_tasks_
RECURSIVE detectCurrentScene(_)
detectCurrentScene(tasks) ==
    IF tasks = <<>> THEN SCENE_UNKNOWN
    ELSE IF Head(tasks).is_foreground /\ Head(tasks).app_type = "game"
    THEN SCENE_GAME
    ELSE IF Head(tasks).is_foreground /\ Head(tasks).app_type = "social"
    THEN SCENE_SOCIAL
    ELSE IF Head(tasks).is_foreground /\ Head(tasks).app_type = "media"
    THEN SCENE_MEDIA
    ELSE IF Head(tasks).is_foreground /\ Head(tasks).app_type = "productivity"
    THEN SCENE_PRODUCTIVITY
    ELSE detectCurrentScene(Tail(tasks))

\* The pass ends at the first task with a failing call.
NextTaskMutEndsOnFailure(tasks, i, priority_ok, binding_ok) ==
    IF priority_ok /\ binding_ok THEN i + 1 ELSE Len(tasks) + 1

\* "for (const auto& task : active_tasks_)": setProcessPriority and
\* setCPUAffinity return a bool and nothing in the body leaves the loop, so
\* the task after task i is task i + 1 whatever the calls returned.
NextTask(tasks, i, priority_ok, binding_ok) ==
    i + 1

\* The body of the loop for task i: setProcessPriority(task.pid,
\* task.priority), which logs an error when setpriority fails; then, when
\* enable_task_binding is set and the task is in the foreground,
\* bindTaskToCore(task.pid, task.priority % cpu_cores), which returns at once
\* unless enable_cpu_affinity is set, and else calls setCPUAffinity: a
\* failure is logged by setCPUAffinity and by bindTaskToCore.
EnforceTask(task, outcome, flags, cores, pass) ==
    LET binds == /\ flags.enable_task_binding
                 /\ task.is_foreground
                 /\ flags.enable_cpu_affinity
    IN  [pass EXCEPT
            !.priority_calls = Append(@, task.pid),
            !.binding_calls =
                IF binds THEN Append(@, [pid |-> task.pid, core |-> task.priority % cores])
                ELSE @,
            !.error_logs = @ + (IF outcome.priority_ok THEN 0 ELSE 1)
                             + (IF binds /\ ~outcome.affinity_ok THEN 2 ELSE 0)]

RECURSIVE EnforceFrom(_, _, _, _, _, _)
EnforceFrom(tasks, i, outcomes, flags, cores, pass) ==
    IF i > Len(tasks) THEN pass
    ELSE EnforceFrom(tasks,
                     NextTask(tasks, i, outcomes[i].priority_ok,
                              \/ ~(flags.enable_task_binding /\ tasks[i].is_foreground
                                     /\ flags.enable_cpu_affinity)
                              \/ outcomes[i].affinity_ok),
                     outcomes, flags, cores,
                     EnforceTask(tasks[i], outcomes[i], flags, cores, pass))

\* What a call of the registry leaves alone.
RegistryFrame ==
    /\ UNCHANGED <<running, caller_pc, main_pc, monitor_pc, tasks_mutex, config_mutex,
                   nice_values, tick_metrics, live_main_loops, live_monitor_loops,
                   shutdown_logs, joins, calls>>
    /\ UNCHANGED notLifecycleNorRegistry

\* addTask(task)
RegistryAddTask(task) ==
    /\ active_tasks' = AddTask(active_tasks, task)
    /\ last_call' = [NoCall EXCEPT !.op = "addTask", !.pid = task.pid]
    /\ UNCHANGED <<cto_config, config>>
    /\ RegistryFrame

\* removeTask(pid)
RegistryRemoveTask(pid) ==
    /\ active_tasks' = RemoveTask(active_tasks, pid)
    /\ last_call' = [NoCall EXCEPT !.op = "removeTask", !.pid = pid]
    /\ UNCHANGED <<cto_config, config>>
    /\ RegistryFrame

\* setScenePreference(SCENE_SOCIAL)
RegistrySetScene ==
    /\ config.current_scene = SCENE_UNKNOWN
    /\ SetScenePreference(SCENE_SOCIAL)
    /\ last_call' = NoCall
    /\ UNCHANGED <<active_tasks, cto_config>>
    /\ RegistryFrame

\* applyCTOConfig(cto)
applyCTOConfig(cto) ==
    /\ cto_config' = [assigned |-> TRUE,
                      enable_task_binding |-> cto.enable_task_binding,
                      enable_cpu_affinity |-> cto.enable_cpu_affinity]
    /\ last_call' = NoCall
    /\ UNCHANGED <<active_tasks, config>>
    /\ RegistryFrame

\* detectCurrentScene()
CallDetectCurrentScene ==
    /\ last_call' = [NoCall EXCEPT !.op = "detectCurrentScene",
                                   !.scene = detectCurrentScene(active_tasks)]
    /\ UNCHANGED <<active_tasks, cto_config, config>>
    /\ RegistryFrame

\* applySchedulingPolicies(): one pass over the registry
CallApplySchedulingPolicies(outcomes, flags, cores) ==
    /\ last_call' =
          EnforceFrom(active_tasks, 1, outcomes, flags, cores,
                      [NoCall EXCEPT !.op = "applySchedulingPolicies",
                                     !.outcomes = outcomes,
                                     !.flags = flags])
    /\ UNCHANGED <<active_tasks, cto_config, config>>
    /\ RegistryFrame

\* setScenePreference(scene)
RegistrySetScenePreference(scene) ==
    /\ SetScenePreference(scene)
    /\ last_call' = NoCall
    /\ UNCHANGED <<active_tasks, cto_config>>
    /\ RegistryFrame

\* getActiveTasks(): a copy of the list, made under the lock
CallGetActiveTasks ==
    /\ last_call' = [NoCall EXCEPT !.op = "getActiveTasks", !.tasks = active_tasks]
    /\ UNCHANGED <<active_tasks, cto_config, config>>
    /\ RegistryFrame

\* updateTaskPriorities(), called by performScheduling in a tick of mainLoop
RegistryUpdateTaskPriorities ==
    /\ active_tasks' = updateTaskPriorities(active_tasks, config.current_scene)
    /\ last_call' = [NoCall EXCEPT !.op = "updateTaskPriorities"]
    /\ UNCHANGED <<cto_config, config>>
    /\ RegistryFrame

\* The part of a tick of monitoringLoop that is under the lock, for the
\* pids that getRunningPIDs returned before the lock was taken.
RegistryMonitorTick(current_pids) ==
    /\ active_tasks' = AddDetected(RemoveEnded(active_tasks, current_pids), current_pids)
    /\ last_call' = [NoCall EXCEPT !.op = "monitoringLoop",
                                   !.current_pids = current_pids]
    /\ UNCHANGED <<cto_config, config>>
    /\ RegistryFrame

\* The task list under the operations that change it.
NextTaskList ==
    \/ \E task \in RegistryTasks : RegistryAddTask(task)
    \/ \E pid \in RegistryPids : RegistryRemoveTask(pid)
    \/ \E scene \in SceneType : RegistrySetScenePreference(scene)
    \/ CallGetActiveTasks
    \/ RegistryUpdateTaskPriorities
    \/ \E current_pids \in RegistryRunningPids : RegistryMonitorTick(current_pids)

NextRegistry ==
    \/ \E task \in RegistryTasks : RegistryAddTask(task)
    \/ \E pid \in RegistryPids : RegistryRemoveTask(pid)
    \/ RegistrySetScene
    \/ \E cto \in CTOConfigs : applyCTOConfig(cto)
    \/ CallDetectCurrentScene
    \/ \E outcomes \in [1..Len(active_tasks) -> SyscallOutcomes],
          flags \in CTOConfigsRead(cto_config), cores \in DeviceCpuCores :
          CallApplySchedulingPolicies(outcomes, flags, cores)

-----------------------------------------------------------------------------
(* RepeatedPrisonersDilemma.  The header declares the class and GamePlayer; *)
(* of the member functions the sources hold simulateRound, in the           *)
(* integration report.  addPlayer, resetGame, getPayoff and getPlayerAction *)
(* are not among the sources and are modelled from the specification        *)
(* (section 4.5).  Payoffs are whole numbers.                               *)

GameStrategy ==
    {"STRATEGY_COOPERATE", "STRATEGY_DEFECT", "STRATEGY_TIT_FOR_TAT",
     "STRATEGY_GENEROUS", "STRATEGY_ADAPTIVE"}

MaxPlayers == 3
MaxGameCalls == 4

\* GamePlayer(id)
GamePlayer(id) ==
    [player_id |-> id, current_strategy |-> "STRATEGY_COOPERATE",
     action_history |-> <<>>, payoff_history |-> <<>>,
     cumulative_payoff |-> 0, cooperation_rate |-> FracOfInt(0)]

\* initializeHamiltonComponents(): players 1, 2 and 3 are added
InitialPlayers == <<GamePlayer(1), GamePlayer(2), GamePlayer(3)>>

NoGameCall == [op |-> "none", players_before |-> <<>>]

GameInit ==
    /\ players = InitialPlayers
    /\ game_call = NoGameCall
    /\ game_calls = 0

\* temptation > reward for mutual cooperation > mutual punishment > sucker's payoff
Payoffs == [temptation |-> 5, reward |-> 3, punishment |-> 1, sucker |-> 0]

\* getPayoff(strategy1, strategy2): what the first strategy earns against
\* the second; a strategy other than STRATEGY_DEFECT counts as cooperation.
getPayoff(strategy1, strategy2) ==
    IF strategy1 # "STRATEGY_DEFECT"
    THEN IF strategy2 # "STRATEGY_DEFECT" THEN Payoffs.reward ELSE Payoffs.sucker
    ELSE IF strategy2 # "STRATEGY_DEFECT" THEN Payoffs.temptation
         ELSE Payoffs.punishment

\* getPlayerAction(player): the moves the player's strategy can make
getPlayerAction(player) ==
    IF player.current_strategy = "STRATEGY_COOPERATE" THEN {TRUE}
    ELSE IF player.current_strategy = "STRATEGY_DEFECT" THEN {FALSE}
    ELSE BOOLEAN

\* The pairs (i, j) with i < j that the two loops of simulateRound visit
PairsOf(n) == {pair \in (1..n) \X (1..n) : pair[1] < pair[2]}

\* What simulateRound makes of the players; action_i[<<i, j>>] is what
\* getPlayerAction returned for player i in the pair (i, j).  Only player i
\* of a pair is written to.
simulateRound(ps, action_i) ==
    [i \in 1..Len(ps) |->
        LET rest == Len(ps) - i
            payoff_i == [k \in 1..rest |->
                            getPayoff(ps[i].current_strategy,
                                      ps[i + k].current_strategy)]
        IN  [ps[i] EXCEPT
                !.action_history = @ \o [k \in 1..rest |-> action_i[<<i, i + k>>]],
                !.payoff_history = @ \o payoff_i,
                !.cumulative_payoff = @ + SumOf(payoff_i)]]

GameCall(name) ==
    /\ game_calls < MaxGameCalls
    /\ game_calls' = game_calls + 1
    /\ game_call' = [op |-> name, players_before |-> players]
    /\ UNCHANGED config
    /\ UNCHANGED notGame

\* resetGame()
resetGame ==
    /\ GameCall("resetGame")
    /\ players' = <<>>

\* initializeGameComponents(): resetGame(), then players 1, 2 and 3
initializeGameComponents ==
    /\ GameCall("initializeGameComponents")
    /\ players' = InitialPlayers

\* addGamePlayer(player_id, strategy), which calls addPlayer(player)
addGamePlayer(player_id, strategy) ==
    /\ Len(players) < MaxPlayers
    /\ GameCall("addGamePlayer")
    /\ players' = Append(players, [GamePlayer(player_id) EXCEPT
                                      !.current_strategy = strategy])

\* game_manager_->simulateRound()
CallSimulateRound ==
    /\ GameCall("simulateRound")
    /\ \E action_i \in [PairsOf(Len(players)) -> BOOLEAN] :
          /\ \A pair \in PairsOf(Len(players)) :
                action_i[pair] \in getPlayerAction(players[pair[1]])
          /\ players' = simulateRound(players, action_i)

NextGame ==
    \/ resetGame
    \/ initializeGameComponents
    \/ \E strategy \in GameStrategy : addGamePlayer(Len(players) + 1, strategy)
    \/ CallSimulateRound

-----------------------------------------------------------------------------
(* evolution_mutex_ and the accesses to evolution_history_: one iteration   *)
(* of the evolution loop statement by statement, with loadEvolutionData and *)
(* saveEvolutionData called from another thread.                            *)

NoAccess == [by |-> "none", kind |-> "none", locked |-> FALSE, in_progress |-> FALSE]

\* The files loadEvolutionData reads here: the entries of their lines.
LoadedHistories ==
    {<<>>,
     <<HistoryEntry(1, 5, CHOOSE st \in PopulationStatistics : TRUE)>>,
     <<HistoryEntry(1, 5, CHOOSE st \in PopulationStatistics : TRUE),
       HistoryEntry(2, 5, CHOOSE st \in PopulationStatistics : TRUE)>>}

LockInit ==
    /\ evolution_mutex = "none"
    /\ history_pc = [loop |-> "none", caller |-> "idle"]
    /\ load_pending = <<>>
    /\ history_access = NoAccess

\* A thread is between its first change of the history and its unlock.
ChangeInProgress(thread) ==
    \/ thread = "loop" /\ history_pc.loop = "update_erase"
    \/ thread = "caller" /\ history_pc.caller = "load_push"

OtherThread(thread) == IF thread = "loop" THEN "caller" ELSE "loop"

\* An access to evolution_history_ by a thread, as it is made.
Access(thread, kind) ==
    [by |-> thread, kind |-> kind, locked |-> evolution_mutex = thread,
     in_progress |-> ChangeInProgress(OtherThread(thread))]

LockFrame ==
    /\ UNCHANGED <<evolution_threads, game_running, saved_evolution, tick_errors>>
    /\ UNCHANGED config
    /\ UNCHANGED notHistoryNorLock

\* startLongTermEvolution(): the loop thread is created
LockStartLongTermEvolution ==
    /\ history_pc.loop = "none"
    /\ evolution_active' = TRUE
    /\ history_pc' = [history_pc EXCEPT !.loop = "while"]
    /\ UNCHANGED <<engine_generation, evolution_history, evolution_mutex,
                   load_pending, history_access>>
    /\ LockFrame

\* while (evolution_active_ && current_generation_ < max_generations_), then
\* performGeneticOperations() and current_generation_++
LoopWhile ==
    /\ history_pc.loop = "while"
    /\ IF evolution_active /\ engine_generation < MaxEngineGenerations
       THEN /\ engine_generation' = engine_generation + 1
            /\ history_pc' = [history_pc EXCEPT !.loop = "update_lock"]
       ELSE /\ history_pc' = [history_pc EXCEPT !.loop = "returned"]
            /\ UNCHANGED engine_generation
    /\ UNCHANGED <<evolution_active, evolution_history, evolution_mutex,
                   load_pending, history_access>>
    /\ LockFrame

\* std::lock_guard<std::mutex> lock(evolution_mutex_)
LockEvolutionMutex(thread, from, to) ==
    /\ history_pc[thread] = from
    /\ evolution_mutex = "none"
    /\ evolution_mutex' = thread
    /\ history_pc' = [history_pc EXCEPT ![thread] = to]
    /\ UNCHANGED <<evolution_active, engine_generation, evolution_history,
                   load_pending, history_access>>
    /\ LockFrame

\* updateEvolutionState(): evolution_history_.push_back(history)
LoopUpdatePush(best_fitness, statistics) ==
    /\ history_pc.loop = "update_push"
    /\ evolution_history' =
          Append(evolution_history,
                 HistoryEntry(engine_generation, best_fitness, statistics))
    /\ history_access' = Access("loop", "append")
    /\ history_pc' = [history_pc EXCEPT !.loop = "update_erase"]
    /\ UNCHANGED <<evolution_active, engine_generation, evolution_mutex, load_pending>>
    /\ LockFrame

\* updateEvolutionState(): the first entry is erased when the size exceeds
\* the limit; the function returns and the lock is released.
LoopUpdateErase ==
    /\ history_pc.loop = "update_erase"
    /\ IF Len(evolution_history) > EVOLUTION_HISTORY_LIMIT
       THEN /\ evolution_history' = Tail(evolution_history)
            /\ history_access' = Access("loop", "evict")
       ELSE /\ UNCHANGED evolution_history
            /\ history_access' = Access("loop", "size")
    /\ evolution_mutex' = "none"
    /\ history_pc' = [history_pc EXCEPT !.loop = "convergence_test"]
    /\ UNCHANGED <<evolution_active, engine_generation, load_pending>>
    /\ LockFrame

\* checkEvolutionConvergence(): "evolution_history_.size() < 10"
LoopConvergenceTest ==
    /\ history_pc.loop = "convergence_test"
    /\ history_access' = Access("loop", "size")
    /\ history_pc' =
          [history_pc EXCEPT !.loop =
              IF Len(evolution_history) < ConvergenceWindow
              THEN "while" ELSE "convergence_read"]
    /\ UNCHANGED <<evolution_active, engine_generation, evolution_history,
                   evolution_mutex, load_pending>>
    /\ LockFrame

\* checkEvolutionConvergence(): back() and [size() - 10] are read and
\* compared.  When the history has shrunk since the test, the reads are out
\* of the vector's bounds and either outcome of the comparison can follow.
LoopConvergenceRead(outcome) ==
    /\ history_pc.loop = "convergence_read"
    /\ history_access' = Access("loop", "read")
    /\ evolution_active' =
          IF Len(evolution_history) < ConvergenceWindow
          THEN outcome
          ELSE checkEvolutionConvergence(evolution_history, evolution_active)
    /\ history_pc' = [history_pc EXCEPT !.loop = "while"]
    /\ UNCHANGED <<engine_generation, evolution_history, evolution_mutex, load_pending>>
    /\ LockFrame

\* loadEvolutionData(filepath) is called; the file is open
LockCallLoadEvolutionData(entries) ==
    /\ history_pc.caller = "idle"
    /\ load_pending' = entries
    /\ history_pc' = [history_pc EXCEPT !.caller = "load_lock"]
    /\ UNCHANGED <<evolution_active, engine_generation, evolution_history,
                   evolution_mutex, history_access>>
    /\ LockFrame

\* loadEvolutionData(): evolution_history_.clear()
LoadClear ==
    /\ history_pc.caller = "load_clear"
    /\ evolution_history' = <<>>
    /\ history_access' = Access("caller", "clear")
    /\ history_pc' = [history_pc EXCEPT !.caller = "load_push"]
    /\ UNCHANGED <<evolution_active, engine_generation, evolution_mutex, load_pending>>
    /\ LockFrame

\* loadEvolutionData(): one line is read and its entry pushed back; at the
\* end of the file the function returns and the lock is released.
LoadPush ==
    /\ history_pc.caller = "load_push"
    /\ IF load_pending = <<>>
       THEN /\ evolution_mutex' = "none"
            /\ history_pc' = [history_pc EXCEPT !.caller = "idle"]
            /\ UNCHANGED <<evolution_history, load_pending, history_access>>
       ELSE /\ evolution_history' = Append(evolution_history, Head(load_pending))
            /\ load_pending' = Tail(load_pending)
            /\ history_access' = Access("caller", "restore")
            /\ UNCHANGED <<evolution_mutex, history_pc>>
    /\ UNCHANGED <<evolution_active, engine_generation>>
    /\ LockFrame

\* saveEvolutionData(filepath) is called; the file is open
LockCallSaveEvolutionData ==
    /\ history_pc.caller = "idle"
    /\ history_pc' = [history_pc EXCEPT !.caller = "save_lock"]
    /\ UNCHANGED <<evolution_active, engine_generation, evolution_history,
                   evolution_mutex, load_pending, history_access>>
    /\ LockFrame

\* saveEvolutionData(): the entries are written; the function returns and
\* the lock is released.
SaveWrite ==
    /\ history_pc.caller = "save_write"
    /\ history_access' = Access("caller", "read")
    /\ evolution_mutex' = "none"
    /\ history_pc' = [history_pc EXCEPT !.caller = "idle"]
    /\ UNCHANGED <<evolution_active, engine_generation, evolution_history, load_pending>>
    /\ LockFrame

NextHistoryLock ==
    \/ LockStartLongTermEvolution
    \/ LoopWhile
    \/ LockEvolutionMutex("loop", "update_lock", "update_push")
    \/ \E best_fitness \in BestFitnessValues, statistics \in PopulationStatistics :
          LoopUpdatePush(best_fitness, statistics)
    \/ LoopUpdateErase
    \/ LoopConvergenceTest
    \/ \E outcome \in BOOLEAN : LoopConvergenceRead(outcome)
    \/ \E entries \in LoadedHistories : LockCallLoadEvolutionData(entries)
    \/ LockEvolutionMutex("caller", "load_lock", "load_clear")
    \/ LoadClear
    \/ LoadPush
    \/ LockCallSaveEvolutionData
    \/ LockEvolutionMutex("caller", "save_lock", "save_write")
    \/ SaveWrite

-----------------------------------------------------------------------------
(* start() and stop() called from several threads, statement by statement. *)
(* running_ is a std::atomic<bool>: each read and each write of it is one   *)
(* step.  main_thread_ and monitor_thread_ are plain std::thread members.   *)
(* Assigning to a std::thread that is joinable calls std::terminate; join() *)
(* on a std::thread that is no longer joinable throws std::system_error,    *)
(* which nothing in stop() catches.  Either ends the process.               *)

Callers == {1, 2}
MaxCallerCalls == 3

NoHandleEvents ==
    [starts |-> 0, shutdowns |-> 0, assigned_while_joinable |-> FALSE,
     joined_twice |-> FALSE]

CallersInit ==
    /\ callers_pc = [c \in Callers |-> [pc |-> "idle", joining |-> 0]]
    /\ main_thread = 0
    /\ monitor_thread = 0
    /\ loop_threads = <<>>
    /\ handle_events = NoHandleEvents
    /\ caller_calls = 0

\* The process has been ended by std::terminate.
Terminated ==
    handle_events.assigned_while_joinable \/ handle_events.joined_twice

\* The loop threads that have not left their function.
LiveLoopThreads ==
    {t \in 1..Len(loop_threads) : loop_threads[t] = "running"}

CallersFrame ==
    /\ UNCHANGED <<caller_pc, main_pc, monitor_pc, tasks_mutex, config_mutex,
                   active_tasks, nice_values, tick_metrics, live_main_loops,
                   live_monitor_loops, shutdown_logs, joins, calls>>
    /\ UNCHANGED config
    /\ UNCHANGED notLifecycleNorCallers

CallerGoes(c, pc) ==
    callers_pc' = [callers_pc EXCEPT ![c] = [pc |-> pc, joining |-> 0]]

\* start(): "if (running_) return false" and "if (!config_.enable_engine)
\* return false"
StartTest(c) ==
    /\ ~Terminated
    /\ callers_pc[c].pc = "idle"
    /\ caller_calls < MaxCallerCalls
    /\ caller_calls' = caller_calls + 1
    /\ CallerGoes(c, IF running \/ ~config.enable_engine THEN "idle" ELSE "start_set")
    /\ UNCHANGED <<running, main_thread, monitor_thread, loop_threads, handle_events>>
    /\ CallersFrame

\* start(): running_ = true
StartSet(c) ==
    /\ ~Terminated
    /\ callers_pc[c].pc = "start_set"
    /\ running' = TRUE
    /\ CallerGoes(c, "start_main")
    /\ UNCHANGED <<main_thread, monitor_thread, loop_threads, handle_events,
                   caller_calls>>
    /\ CallersFrame

\* start(): main_thread_ = std::thread(&UIEECoreEngine::mainLoop, this)
StartMainThread(c) ==
    /\ ~Terminated
    /\ callers_pc[c].pc = "start_main"
    /\ loop_threads' = Append(loop_threads, "running")
    /\ IF main_thread # 0
       THEN /\ handle_events' = [handle_events EXCEPT !.assigned_while_joinable = TRUE]
            /\ UNCHANGED main_thread
       ELSE /\ main_thread' = Len(loop_threads) + 1
            /\ UNCHANGED handle_events
    /\ CallerGoes(c, "start_monitor")
    /\ UNCHANGED <<running, monitor_thread, caller_calls>>
    /\ CallersFrame

\* start(): monitor_thread_ = std::thread(&UIEECoreEngine::monitoringLoop,
\* this), the message and "return true"
StartMonitorThread(c) ==
    /\ ~Terminated
    /\ callers_pc[c].pc = "start_monitor"
    /\ loop_threads' = Append(loop_threads, "running")
    /\ IF monitor_thread # 0
       THEN /\ handle_events' = [handle_events EXCEPT !.assigned_while_joinable = TRUE]
            /\ UNCHANGED monitor_thread
       ELSE /\ monitor_thread' = Len(loop_threads) + 1
            /\ handle_events' = [handle_events EXCEPT !.starts = @ + 1]
    /\ CallerGoes(c, "idle")
    /\ UNCHANGED <<running, main_thread, caller_calls>>
    /\ CallersFrame

\* stop(): "if (!running_) return"
StopTest(c) ==
    /\ ~Terminated
    /\ callers_pc[c].pc = "idle"
    /\ caller_calls < MaxCallerCalls
    /\ caller_calls' = caller_calls + 1
    /\ CallerGoes(c, IF ~running THEN "idle" ELSE "stop_set")
    /\ UNCHANGED <<running, main_thread, monitor_thread, loop_threads, handle_events>>
    /\ CallersFrame

\* stop(): running_ = false and cv_.notify_all()
StopSet(c) ==
    /\ ~Terminated
    /\ callers_pc[c].pc = "stop_set"
    /\ running' = FALSE
    /\ CallerGoes(c, "stop_main_joinable")
    /\ UNCHANGED <<main_thread, monitor_thread, loop_threads, handle_events,
                   caller_calls>>
    /\ CallersFrame

\* stop(): "if (main_thread_.joinable())" / "if (monitor_thread_.joinable())"
StopJoinable(c, pc, handle, join_pc, next_pc) ==
    /\ ~Terminated
    /\ callers_pc[c].pc = pc
    /\ callers_pc' =
          [callers_pc EXCEPT ![c] =
              IF handle # 0 THEN [pc |-> join_pc, joining |-> handle]
              ELSE [pc |-> next_pc, joining |-> 0]]
    /\ UNCHANGED <<running, main_thread, monitor_thread, loop_threads, handle_events,
                   caller_calls>>
    /\ CallersFrame

\* What join() makes of the handle: join() returns when the thread has left
\* its function and the handle is then not joinable.
JoinedHandle(handle, joining) ==
    IF handle = joining THEN 0 ELSE handle

\* What join() records: the thread had been joined through this handle
\* before.
JoinedEvents(handle, joining) ==
    IF handle = joining THEN handle_events
    ELSE [handle_events EXCEPT !.joined_twice = TRUE]

\* stop(): main_thread_.join()
StopJoinMainThread(c) ==
    /\ ~Terminated
    /\ callers_pc[c].pc = "stop_main_join"
    /\ loop_threads[callers_pc[c].joining] = "exited"
    /\ main_thread' = JoinedHandle(main_thread, callers_pc[c].joining)
    /\ handle_events' = JoinedEvents(main_thread, callers_pc[c].joining)
    /\ CallerGoes(c, "stop_monitor_joinable")
    /\ UNCHANGED <<running, monitor_thread, loop_threads, caller_calls>>
    /\ CallersFrame

\* stop(): monitor_thread_.join(), the message and the return
StopJoinMonitorThread(c) ==
    /\ ~Terminated
    /\ callers_pc[c].pc = "stop_monitor_join"
    /\ loop_threads[callers_pc[c].joining] = "exited"
    /\ monitor_thread' = JoinedHandle(monitor_thread, callers_pc[c].joining)
    /\ handle_events' =
          [JoinedEvents(monitor_thread, callers_pc[c].joining) EXCEPT
              !.shutdowns = @ + 1]
    /\ CallerGoes(c, "idle")
    /\ UNCHANGED <<running, main_thread, loop_threads, caller_calls>>
    /\ CallersFrame

\* stop(): neither handle was joinable; the message and the return
StopReturn(c) ==
    /\ ~Terminated
    /\ callers_pc[c].pc = "stop_return"
    /\ handle_events' = [handle_events EXCEPT !.shutdowns = @ + 1]
    /\ CallerGoes(c, "idle")
    /\ UNCHANGED <<running, main_thread, monitor_thread, loop_threads, caller_calls>>
    /\ CallersFrame

\* mainLoop / monitoringLoop: "while (running_)" is false and the thread
\* leaves its function
LoopThreadExits(t) ==
    /\ ~Terminated
    /\ loop_threads[t] = "running"
    /\ ~running
    /\ loop_threads' = [loop_threads EXCEPT ![t] = "exited"]
    /\ UNCHANGED <<running, callers_pc, main_thread, monitor_thread, handle_events,
                   caller_calls>>
    /\ CallersFrame

NextCallers ==
    \/ \E c \in Callers : StartTest(c)
    \/ \E c \in Callers : StartSet(c)
    \/ \E c \in Callers : StartMainThread(c)
    \/ \E c \in Callers : StartMonitorThread(c)
    \/ \E c \in Callers : StopTest(c)
    \/ \E c \in Callers : StopSet(c)
    \/ \E c \in Callers :
          StopJoinable(c, "stop_main_joinable", main_thread,
                       "stop_main_join", "stop_monitor_joinable")
    \/ \E c \in Callers : StopJoinMainThread(c)
    \/ \E c \in Callers :
          StopJoinable(c, "stop_monitor_joinable", monitor_thread,
                       "stop_monitor_join", "stop_return")
    \/ \E c \in Callers : StopJoinMonitorThread(c)
    \/ \E c \in Callers : StopReturn(c)
    \/ \E t \in 1..Len(loop_threads) : LoopThreadExits(t)

-----------------------------------------------------------------------------
(* The three locks together.  A call of addTask, removeTask or              *)
(* getActiveTasks first requests tasks_mutex_ and then, when the mutex is   *)
(* free, takes it.  The threads of the engine use tasks_mutex_ and          *)
(* config_mutex_ only and the evolution thread and the callers of           *)
(* saveEvolutionData / loadEvolutionData use evolution_mutex_ only, so a    *)
(* run here is a run of the one group or of the other.                      *)

CallerTaskRequests == {"addTask", "removeTask", "getActiveTasks"}

\* The engine's threads have not run.
EngineUntouched ==
    /\ calls = <<>>
    /\ caller_pc = "idle"
    /\ main_pc = "none"
    /\ active_tasks = <<>>

\* The evolution thread has not been created and no call has touched the
\* history.
EvolutionUntouched ==
    /\ history_pc = [loop |-> "none", caller |-> "idle"]
    /\ evolution_history = <<>>

\* addTask / removeTask / getActiveTasks is called: the lock_guard's
\* constructor is entered
CallerRequestsTasks(operation) ==
    /\ EvolutionUntouched
    /\ caller_pc = "idle"
    /\ caller_pc' = operation
    /\ UNCHANGED <<tasks_mutex, config_mutex, active_tasks>>
    /\ UNCHANGED config
    /\ CallerFrame

\* std::lock_guard<std::mutex> lock(tasks_mutex_) returns with the lock
CallerAcquiresTasks ==
    /\ caller_pc \in CallerTaskRequests
    /\ tasks_mutex = "free"
    /\ tasks_mutex' = "caller"
    /\ caller_pc' = IF caller_pc = "addTask" THEN "addTask_locked"
                    ELSE IF caller_pc = "removeTask" THEN "removeTask_locked"
                    ELSE "getActiveTasks_locked"
    /\ UNCHANGED <<config_mutex, active_tasks>>
    /\ UNCHANGED config
    /\ CallerFrame

\* getActiveTasks(): the list is copied under the lock
getActiveTasks ==
    /\ caller_pc = "getActiveTasks_locked"
    /\ tasks_mutex' = "free"
    /\ caller_pc' = "idle"
    /\ UNCHANGED <<config_mutex, active_tasks>>
    /\ UNCHANGED config
    /\ CallerFrame

\* The steps of the caller inside a critical section of tasks_mutex_.
CallerLockedStep ==
    \/ \E pid \in Pids : addTask(pid)
    \/ \E pid \in Pids : removeTask(pid)
    \/ getActiveTasks

NextLocks ==
    \/ calls = <<>> /\ EvolutionUntouched /\ CallStart
    \/ Len(calls) = 1 /\ CallStop
    \/ StopStep
    \/ MainStep
    \/ MonitorStep
    \/ \E operation \in CallerTaskRequests : CallerRequestsTasks(operation)
    \/ CallerAcquiresTasks
    \/ CallerLockedStep
    \/ EngineUntouched /\ LockStartLongTermEvolution
    \/ LoopWhile
    \/ LockEvolutionMutex("loop", "update_lock", "update_push")
    \/ \E best_fitness \in BestFitnessValues, statistics \in PopulationStatistics :
          LoopUpdatePush(best_fitness, statistics)
    \/ LoopUpdateErase
    \/ LoopConvergenceTest
    \/ \E outcome \in BOOLEAN : LoopConvergenceRead(outcome)
    \/ \E entries \in LoadedHistories :
          EngineUntouched /\ LockCallLoadEvolutionData(entries)
    \/ LockEvolutionMutex("caller", "load_lock", "load_clear")
    \/ LoadClear
    \/ LoadPush
    \/ EngineUntouched /\ LockCallSaveEvolutionData
    \/ LockEvolutionMutex("caller", "save_lock", "save_write")
    \/ SaveWrite

\* A thread that runs goes on; a thread that waits for a mutex that is
\* released again and again gets it.
LocksFairness ==
    /\ LifecycleFairness
    /\ WF_vars(CallerLockedStep)
    /\ SF_vars(MonitorLockTasks)
    /\ SF_vars(CallerAcquiresTasks)

-----------------------------------------------------------------------------
(* Specifications *)

Init ==
    /\ ConfigInit
    /\ ParetoInit
    /\ NashInit
    /\ LoadInit
    /\ CESInit
    /\ SamplingInit
    /\ EvolutionInit
    /\ CacheInit
    /\ LifecycleInit
    /\ ReaderInit
    /\ HistoryInit
    /\ RegistryInit
    /\ GameInit
    /\ LockInit
    /\ CallersInit

SpecPareto == Init /\ [][NextPareto]_vars
SpecNash == Init /\ [][NextNash]_vars
SpecLoad == Init /\ [][NextLoad]_vars
SpecMain == Init /\ [][NextMain]_vars
SpecCES == Init /\ [][NextCES]_vars
SpecSampling == Init /\ [][NextSampling]_vars
SpecOptimizedPaths == Init /\ [][NextOptimizedPaths]_vars
SpecGame == Init /\ [][NextGame]_vars
SpecLocks == Init /\ [][NextLocks]_vars /\ LocksFairness
SpecCallers == Init /\ [][NextCallers]_vars
SpecHistoryLock == Init /\ [][NextHistoryLock]_vars
SpecEvolution == Init /\ [][NextEvolution]_vars
SpecCache == Init /\ [][NextCache]_vars
SpecLifecycle == Init /\ [][NextLifecycle]_vars
SpecReaders == Init /\ [][NextReaders]_vars
SpecHistory == Init /\ [][NextHistory]_vars
SpecEvolutionData == Init /\ [][NextEvolutionData]_vars
SpecOrchestrator == Init /\ [][NextOrchestrator]_vars
SpecTickFailures == Init /\ [][NextTickFailures]_vars
SpecRegistry == Init /\ [][NextRegistry]_vars
SpecTaskList == Init /\ [][NextTaskList]_vars
SpecStartStop == Init /\ [][NextStartStop]_vars /\ LifecycleFairness

-----------------------------------------------------------------------------
(* Claims about the Pareto optimizer *)

\* Dominance as the specification states it: A dominates B iff A is no worse
\* on the three objectives and strictly better on at least one.
DominatesAsSpecified(A, B) ==
    /\ A.performance >= B.performance
    /\ A.power_consumption <= B.power_consumption
    /\ A.thermal_impact <= B.thermal_impact
    /\ ~ ( /\ A.performance = B.performance
           /\ A.power_consumption = B.power_consumption
           /\ A.thermal_impact = B.thermal_impact )

Count(s, x) == Cardinality({i \in 1..Len(s) : s[i] = x})

\* C1: the output of calculateParetoFrontier contains only input points and
\* no output point is dominated by another output point.
C1_FrontierNonDominated ==
    pareto_pc \in {"frontier", "optimal"} =>
        /\ \A k \in 1..Len(pareto_frontier) :
               \E i \in 1..Len(test_points) : pareto_frontier[k] = test_points[i]
        /\ \A k, l \in 1..Len(pareto_frontier) :
               k # l => ~DominatesAsSpecified(pareto_frontier[k], pareto_frontier[l])

\* C1 witness: a computed frontier that left a dominated point out and kept
\* two points that do not dominate each other.
C1_Witness ==
    /\ pareto_pc = "frontier"
    /\ Len(test_points) = 3
    /\ Len(pareto_frontier) = 2
    /\ pareto_frontier[1] # pareto_frontier[2]

\* C2: every input point that calculateParetoFrontier leaves out is dominated
\* by a point of the output, and a point that no output point dominates is in
\* the output as often as it is in the input (equal duplicates are all kept).
C2_ExcludedAreDominated ==
    pareto_pc \in {"frontier", "optimal"} =>
        \A i \in 1..Len(test_points) :
            \/ \E k \in 1..Len(pareto_frontier) :
                   DominatesAsSpecified(pareto_frontier[k], test_points[i])
            \/ Count(pareto_frontier, test_points[i]) = Count(test_points, test_points[i])

\* C2 witness: a frontier computed from a list that holds a point twice and a
\* point the frontier left out; both copies are in the frontier.
C2_Witness ==
    /\ pareto_pc = "frontier"
    /\ Len(test_points) = 3
    /\ Len(pareto_frontier) = 2
    /\ pareto_frontier[1] = pareto_frontier[2]

\* C3: findOptimalPoint returns an element of the given frontier when the
\* frontier is non-empty, and the zero-valued point when it is empty.
C3_OptimalIsMember ==
    pareto_pc \in {"optimal", "optimal_list"} =>
        IF Len(frontier_arg) = 0
        THEN optimal = ZeroPoint
        ELSE optimal \in Range(frontier_arg)

\* C28: for a non-empty frontier the point that findOptimalPoint returns
\* has a score, under the weights of the current scene preference, that is
\* greater than or equal to the score of every point of the frontier.
C28_OptimalScoreIsMaximal ==
    (pareto_pc = "optimal" /\ Len(frontier_arg) > 0) =>
        \A i \in 1..Len(frontier_arg) :
            Score(optimal, config.current_scene)
               >= Score(frontier_arg[i], config.current_scene)

-----------------------------------------------------------------------------
(* Claims about the Nash solver *)

RatAdd(x, y) ==
    [num |-> SAdd(SMul(x.num, SInt(FALSE, y.den)), SMul(y.num, SInt(FALSE, x.den))),
     den |-> BigMul(x.den, y.den)]

RECURSIVE RatSum(_)
RatSum(s) ==
    IF Len(s) = 0 THEN [num |-> SZero, den |-> BigOfNat(1)]
    ELSE RatAdd(Head(s), RatSum(Tail(s)))

RatIsOne(x) == x.num = SInt(FALSE, x.den)

\* C4: for every non-empty square payoff matrix, with entries of any sign,
\* the returned strategy vector has one entry per row of the matrix, every
\* entry is non-negative, and the entries sum to 1.
C4_StrategiesAreDistribution ==
    (nash_calls >= 1 /\ Len(payoff_matrix) > 0) =>
        /\ Len(equilibrium.strategies) = Len(payoff_matrix)
        /\ \A i \in 1..Len(equilibrium.strategies) : ~equilibrium.strategies[i].num.neg
        /\ RatIsOne(RatSum(equilibrium.strategies))

\* C5: two calls of calculateNashEquilibrium with the same payoff matrix
\* return the same strategy vector and the same utility value, whatever the
\* state of the engine is at each of the calls.
C5_SameMatrixSameEquilibrium ==
    nash_calls = 2 => equilibrium = previous_equilibrium

-----------------------------------------------------------------------------
(* Claims about the CES score *)

\* Snapshots whose fields are not tied to one another, NaN included.
SnapshotValues == {NaN, Double(0), Double(100)}

MetricsSnapshots ==
    { [MetricsOf(0, 0, 0) EXCEPT !.responsiveness_score = r, !.fluency_score = f,
                                 !.efficiency_score = e, !.thermal_state = t] :
        r \in SnapshotValues, f \in SnapshotValues,
        e \in SnapshotValues, t \in SnapshotValues }

InZeroToHundred(x) == ~x.nan /\ 0 <= x.val /\ x.val <= 1000

\* C6: for every metrics snapshot and every value of the four CES weights,
\* also after evolutionary parameters have overwritten them, calculateCES
\* returns a value in [0,100]; so every ces_score that getCurrentMetrics
\* produced and the performance history stores is in [0,100].
C6_CESInRange ==
    /\ \A metrics \in MetricsSnapshots : InZeroToHundred(calculateCES(metrics))
    /\ \A i \in 1..Len(performance_history) :
          InZeroToHundred(performance_history[i].ces_score)

\* Evolutionary parameters have overwritten the weights, the weighted sum of
\* the newest entry of the history is below zero and its score is 0.
C6_Witness ==
    /\ Len(performance_history) > 0
    /\ config.responsiveness_weight = Double(-50)
    /\ DLess(WeightedSum(performance_history[Len(performance_history)]), Double(0))
    /\ performance_history[Len(performance_history)].ces_score = Double(0)

-----------------------------------------------------------------------------
(* Claims about the performance history *)

\* C19: the performance history never holds more than MAX_HISTORY_SIZE
\* entries; a tick that finds it full removes exactly the oldest entry, a
\* tick that does not removes nothing, and either appends the new metrics at
\* the end; the entries that stay keep their order.
C19_HistoryBoundedOldestFirst ==
    /\ [](Len(performance_history) <= MAX_HISTORY_SIZE)
    /\ [][performance_history' # performance_history =>
            /\ Len(performance_history') >= 1
            /\ SubSeq(performance_history', 1, Len(performance_history') - 1) =
                  IF Len(performance_history) = MAX_HISTORY_SIZE
                  THEN Tail(performance_history)
                  ELSE performance_history]_vars

\* The history is full, the last tick erased the oldest entry, and the
\* entries differ, so that their order shows.
C19_Witness ==
    /\ history_erased
    /\ Len(performance_history) = MAX_HISTORY_SIZE
    /\ performance_history[1] # performance_history[MAX_HISTORY_SIZE]

-----------------------------------------------------------------------------
(* Claims about the evolution history *)

\* C20: after any sequence of updateEvolutionState and loadEvolutionData
\* operations the evolution history holds at most EVOLUTION_HISTORY_LIMIT
\* entries.  (The eviction of updateEvolutionState is of the oldest entry;
\* it is the bound that loadEvolutionData does not keep.)
C20_EvolutionHistoryCapped ==
    Len(evolution_history) <= EVOLUTION_HISTORY_LIMIT

\* C24: after any sequence of startLongTermEvolution and
\* stopLongTermEvolution calls, a start issued while a stopped loop is still
\* in its sleep included, at most one evolution loop is running.
C24_AtMostOneEvolutionLoop ==
    Cardinality(RunningEvolutionLoops) <= 1

\* The steps of a whole cycle of the evolution loop, in order.
CompleteCycle ==
    <<"evolveGeneration", "push_back", "simulateRound", "checkEvolutionConvergence">>

\* Thread t has gone through a cycle to its end and is in the sleep after it.
CycleCompleted(t) ==
    /\ evolution_threads[t].pc = "sleep_for"
    /\ evolution_threads[t].cycle.steps # <<>>
    /\ evolution_threads[t].cycle.steps[Len(evolution_threads[t].cycle.steps)]
          = "checkEvolutionConvergence"

\* C30: every cycle of the evolution loop performs, in this order, one
\* generation step, one append to the history of an entry that carries the
\* generation number of the cycle, one simulated game round and one
\* convergence check.
C30_CycleRunsFourSteps ==
    \A t \in 1..Len(evolution_threads) :
        CycleCompleted(t) =>
            /\ evolution_threads[t].cycle.steps = CompleteCycle
            /\ evolution_threads[t].cycle.appended = evolution_threads[t].cycle.generation

\* What the convergence check leaves in evolution_active_ when it compares
\* the newest entry with the entry ConvergenceWindow positions before it,
\* and does nothing when the history has no such entry.
ConvergenceOfEntryWindowBefore(history, active) ==
    IF Len(history) < ConvergenceWindow + 1 THEN active
    ELSE IF AbsDifference(history[Len(history)].best_fitness,
                          history[Len(history) - ConvergenceWindow].best_fitness)
               * InverseEvolutionConvergenceThreshold < 1
    THEN FALSE
    ELSE active

\* C29: the convergence check compares the best fitness of the newest entry
\* of the history with that of the entry ConvergenceWindow positions before
\* the newest, clears evolution_active_ exactly when the absolute difference
\* is below the threshold, and does nothing when the history has fewer
\* entries than that takes.
C29_ConvergenceComparesWindowBefore ==
    [][\A t \in 1..Len(evolution_threads) :
          (/\ evolution_threads[t].pc = "checkEvolutionConvergence"
           /\ Len(evolution_threads') = Len(evolution_threads)
           /\ evolution_threads'[t].pc = "sleep_for"
           /\ CycleCompleted(t)')
          => evolution_active' =
                ConvergenceOfEntryWindowBefore(evolution_history, evolution_active)]_vars

\* C25: after saveEvolutionData and loadEvolutionData of the file it wrote,
\* the history has one entry for each exported entry, in the same order, and
\* each has the generation, best fitness, average fitness and diversity
\* score of the exported entry.
C25_EvolutionDataRoundTrip ==
    saved_evolution.loaded =>
        /\ Len(evolution_history) = Len(saved_evolution.history)
        /\ \A i \in 1..Len(saved_evolution.history) :
              /\ evolution_history[i].generation = saved_evolution.history[i].generation
              /\ evolution_history[i].best_fitness = saved_evolution.history[i].best_fitness
              /\ evolution_history[i].average_fitness
                    = saved_evolution.history[i].average_fitness
              /\ evolution_history[i].diversity_score
                    = saved_evolution.history[i].diversity_score

-----------------------------------------------------------------------------
(* Claims about failures inside a tick *)

\* No loop thread has been left by an exception.
NoThreadTerminated ==
    /\ main_pc # "terminated"
    /\ monitor_pc # "terminated"
    /\ \A t \in 1..Len(evolution_threads) : evolution_threads[t].pc # "terminated"

\* A step in which mainLoop fails: one error is logged, tasks_mutex_ is not
\* left with the loop, and the loop is at the computation of its wait.
MainFailureCaught ==
    tick_errors'.main # tick_errors.main =>
        /\ tick_errors'.main = tick_errors.main + 1
        /\ tasks_mutex' # "main"
        /\ main_pc' = "sleep_time"
        /\ live_main_loops' = live_main_loops

\* A step in which monitoringLoop fails.
MonitorFailureCaught ==
    tick_errors'.monitor # tick_errors.monitor =>
        /\ tick_errors'.monitor = tick_errors.monitor + 1
        /\ tasks_mutex' # "monitor"
        /\ monitor_pc' = "sleep_for"
        /\ live_monitor_loops' = live_monitor_loops

\* A step in which evolutionMainLoop fails.
EvolutionFailureCaught ==
    tick_errors'.evolution # tick_errors.evolution =>
        /\ tick_errors'.evolution = tick_errors.evolution + 1
        /\ Len(evolution_threads') = Len(evolution_threads)
        /\ \A t \in 1..Len(evolution_threads) :
              evolution_threads'[t].pc # evolution_threads[t].pc =>
                  evolution_threads'[t].pc = "sleep_for"

\* A loop is left only by the test of its while statement, when the test
\* finds the flag of the loop cleared (for the evolution loop: or the last
\* generation reached).
LoopsEndAtTheirTest ==
    /\ (main_pc # "exited" /\ main_pc' = "exited") => (main_pc = "while" /\ ~running)
    /\ (monitor_pc # "exited" /\ monitor_pc' = "exited")
          => (monitor_pc = "while" /\ ~running)
    /\ Len(evolution_threads') = Len(evolution_threads) =>
          \A t \in 1..Len(evolution_threads) :
              (evolution_threads[t].pc # "returned"
                  /\ evolution_threads'[t].pc = "returned")
              => /\ evolution_threads[t].pc = "while"
                 /\ ~(evolution_active /\ engine_generation < MaxEngineGenerations)

-----------------------------------------------------------------------------
(* Claims about the population *)

\* C7: every call of evolveGeneration leaves the size of the population
\* equal to the configured population size and increases the generation
\* counter by exactly 1; over any number of calls the size never changes.
C7_SizeKeptGenerationPlusOne ==
    /\ Len(population) = population_size
    /\ evolution_call \in {"evolvePopulation", "performGeneticOperations"} =>
          current_generation = generation_before + 1

\* Two generations have passed and the population holds two different
\* individuals.
C7_Witness ==
    /\ evolution_call = "evolvePopulation"
    /\ current_generation = 2
    /\ population_size = 2
    /\ population[1] # population[2]

-----------------------------------------------------------------------------
(* Claims about the fitness cache *)

\* The slots that hold the metrics, among the valid entries and among all
\* the entries that were written.
ValidSlotsOf(metrics) ==
    {i \in 1..Len(cache) : isCacheValid(cache[i]) /\ cache[i].metrics = metrics}
WrittenSlotsOf(metrics) ==
    {i \in 1..Len(cache) : cache[i].is_valid /\ cache[i].metrics = metrics}

-----------------------------------------------------------------------------
(* Claims about start, stop and the loops *)

\* The engine ran when the i-th call was made: the last call before it that
\* changed the flag was a start.
RECURSIVE RunningAfter(_)
RunningAfter(i) ==
    IF i = 0 THEN FALSE
    ELSE IF calls[i].op = "start" /\ calls[i].result THEN TRUE
    ELSE IF calls[i].op = "stop" THEN FALSE
    ELSE RunningAfter(i - 1)

\* C11: after start(), a stop() that follows a stop() does nothing: it joins
\* no thread, writes no shutdown entry and leaves the flag and the loops as
\* they were, so start/stop/stop writes exactly one shutdown entry.
C11_SecondStopDoesNothing ==
    \A i \in 1..Len(calls) :
        /\ (i >= 2 /\ calls[i - 1].op = "stop" /\ calls[i].op = "stop") =>
              /\ calls[i].shutdown_logs = calls[i - 1].shutdown_logs
              /\ calls[i].joins = calls[i - 1].joins
              /\ calls[i].running = calls[i - 1].running
              /\ calls[i].main_loops = calls[i - 1].main_loops
              /\ calls[i].monitor_loops = calls[i - 1].monitor_loops
        /\ (i >= 3 /\ calls[i - 2].op = "start" /\ calls[i - 2].result
               /\ calls[i - 1].op = "stop" /\ calls[i].op = "stop") =>
              calls[i].shutdown_logs = calls[i - 2].shutdown_logs + 1

\* start, stop and stop have returned, in this order.
C11_Witness ==
    /\ Len(calls) = 3
    /\ calls[1].op = "start" /\ calls[1].result
    /\ calls[2].op = "stop" /\ calls[2].joins = 2
    /\ calls[3].op = "stop"
    /\ shutdown_logs = 1

C13_StopReturnsLoopsExited ==
    /\ [](( caller_pc = "idle" /\ ~running ) =>
            ( main_pc = "none" /\ monitor_pc = "none"
              /\ live_main_loops = 0 /\ live_monitor_loops = 0 ))
    /\ (caller_pc = "stop_notify_all") ~> (caller_pc = "idle")

\* A stop has returned that found the engine running and joined two threads.
C13_Witness ==
    /\ caller_pc = "idle"
    /\ ~running
    /\ Len(calls) = 2
    /\ calls[2].op = "stop" /\ calls[2].result
    /\ joins = 2
    /\ Len(performance_history) > 0

\* C14: a loop that is blocked in its wait between two ticks when shutdown
\* is requested is woken by the shutdown: once stop() has called
\* notify_all, no loop is still blocked in its wait.
C14_ShutdownWakesLoops ==
    caller_pc \in {"stop_join_main", "stop_join_monitor", "stop_log"} =>
        /\ main_pc # "wait_blocked"
        /\ monitor_pc # "sleep_for"

\* C15: in every tick of the scheduling loop the metrics of the tick are
\* captured before the priorities are computed and enforced.
C15_MetricsBeforePriorities ==
    main_pc \in {"applySchedulingPolicies", "applySchedulingPolicies_locked"} =>
        tick_metrics

\* The threads that are reading or writing the task list.
RegistryAccessors ==
    {t \in {"caller", "main", "monitor"} :
        \/ t = "caller" /\ caller_pc \in {"addTask_locked", "removeTask_locked",
                                          "getWebUIStatus_active_tasks"}
        \/ t = "main" /\ main_pc \in {"updateTaskPriorities_locked",
                                      "applySchedulingPolicies_locked"}
        \/ t = "monitor" /\ monitor_pc = "reconcile_locked"}

\* C16: every read and every write of the task list happens while the
\* thread holds tasks_mutex_.
C16_RegistryUnderLock ==
    \A t \in RegistryAccessors : tasks_mutex = t

\* The threads that are reading or writing config_.
ConfigAccessors ==
    {t \in {"caller", "main"} :
        \/ t = "caller" /\ caller_pc \in {"setScenePreference_locked",
                                          "getWebUIStatus_current_scene"}
        \/ t = "main" /\ main_pc \in {"performScheduling",
                                      "updateTaskPriorities_locked", "sleep_time"}}

\* C17: every read and every write of config_ happens while the thread
\* holds config_mutex_.
C17_ConfigUnderLock ==
    \A t \in ConfigAccessors : config_mutex = t

-----------------------------------------------------------------------------
(* Claims about the readers of the population *)

\* C18: a getCurrentPopulation or getBestIndividual that runs while
\* evolveGeneration is in progress sees a complete generation: the
\* population as it was when the generation began (after the replacement,
\* the new one), never a population of which only a part has been evaluated.
C18_ReadersSeeWholeGeneration ==
    /\ last_read.kind = "population" => last_read.value = last_read.old
    /\ last_read.kind = "best" =>
          last_read.value = last_read.old[BestIndex(last_read.old)]

-----------------------------------------------------------------------------
(* Claims about the task registry *)

\* The positions of the tasks that a pass binds to a core.
BoundTasks(tasks, flags) ==
    {i \in 1..Len(tasks) :
        flags.enable_task_binding /\ flags.enable_cpu_affinity /\ tasks[i].is_foreground}

\* The calls of a pass that failed.
FailedCalls(tasks, flags, outcomes) ==
    Cardinality({i \in 1..Len(tasks) : ~outcomes[i].priority_ok})
    + Cardinality({i \in BoundTasks(tasks, flags) : ~outcomes[i].affinity_ok})

SceneOfAppType(app_type) ==
    CASE app_type = "game" -> SCENE_GAME
      [] app_type = "social" -> SCENE_SOCIAL
      [] app_type = "media" -> SCENE_MEDIA
      [] app_type = "productivity" -> SCENE_PRODUCTIVITY
      [] OTHER -> SCENE_UNKNOWN

\* The positions of the foreground tasks whose app type has a scene.
SceneTasks(tasks) ==
    {i \in 1..Len(tasks) :
        tasks[i].is_foreground /\ SceneOfAppType(tasks[i].app_type) # SCENE_UNKNOWN}

\* C27: detectCurrentScene returns the scene of the app type of the first
\* foreground task, in registry order, whose app type is game, social, media
\* or productivity, and SCENE_UNKNOWN when there is no such task; the call
\* changes neither the registry nor the scene preference.
C27_SceneOfFirstForegroundTask ==
    /\ [](last_call.op = "detectCurrentScene" =>
            last_call.scene =
               IF SceneTasks(active_tasks) = {} THEN SCENE_UNKNOWN
               ELSE SceneOfAppType(
                       active_tasks[CHOOSE i \in SceneTasks(active_tasks) :
                                       \A j \in SceneTasks(active_tasks) : i <= j].app_type))
    /\ [][last_call'.op = "detectCurrentScene" =>
            active_tasks' = active_tasks /\ config' = config]_vars

\* The registry holds a foreground task of unknown type and then a
\* foreground media task, the scene preference is another scene, and the
\* call returned the scene of the second task.
C27_Witness ==
    /\ last_call.op = "detectCurrentScene"
    /\ Len(active_tasks) = 2
    /\ active_tasks[1].is_foreground
    /\ active_tasks[1].app_type = "unknown"
    /\ active_tasks[2].is_foreground
    /\ active_tasks[2].app_type = "media"
    /\ config.current_scene = SCENE_SOCIAL
    /\ last_call.scene = SCENE_MEDIA

\* The pids of the tasks of a list.
PidsOf(tasks) == {tasks[i].pid : i \in 1..Len(tasks)}

\* The tasks of the list whose pid is among the pids, in their order.
TasksAmong(tasks, pids) ==
    LET Alive(task) == task.pid \in pids
    IN  SelectSeq(tasks, Alive)

\* No two tasks of the registry have the same pid.
NoDuplicatePids ==
    \A i \in 1..Len(active_tasks), j \in 1..Len(active_tasks) :
        i # j => active_tasks[i].pid # active_tasks[j].pid

\* C31: after a tick of the monitor loop the pids of the registry are the
\* pids enumerated in the tick: the tasks whose pid is not enumerated are
\* gone, the tasks whose pid is enumerated are kept as they were and in
\* their order, and every enumerated pid that was not known has exactly one
\* new task, with priority 0, app type unknown and not in the foreground.
C31_RegistryFollowsRunningPids ==
    [][last_call'.op = "monitoringLoop" =>
          LET pids == Range(last_call'.current_pids)
              survivors == TasksAmong(active_tasks, pids)
          IN  /\ PidsOf(active_tasks') = pids
              /\ Len(active_tasks') >= Len(survivors)
              /\ SubSeq(active_tasks', 1, Len(survivors)) = survivors
              /\ \A i \in (Len(survivors) + 1)..Len(active_tasks') :
                    /\ active_tasks'[i].pid \notin PidsOf(active_tasks)
                    /\ active_tasks'[i] =
                          [pid |-> active_tasks'[i].pid, priority |-> 0,
                           app_type |-> "unknown", is_foreground |-> FALSE]
              /\ \A i \in 1..Len(active_tasks'), j \in 1..Len(active_tasks') :
                    i # j => active_tasks'[i].pid # active_tasks'[j].pid]_vars

\* A tick that enumerated pids 2 and 1 has kept the foreground game task of
\* pid 1, with the priority its scene gave it, and has added a task for
\* pid 2.
C31_Witness ==
    /\ last_call.op = "monitoringLoop"
    /\ last_call.current_pids = <<2, 1>>
    /\ Len(active_tasks) = 2
    /\ active_tasks[1] =
          [pid |-> 1, priority |-> 10, app_type |-> "game", is_foreground |-> TRUE]
    /\ active_tasks[2] =
          [pid |-> 2, priority |-> 0, app_type |-> "unknown", is_foreground |-> FALSE]

\* The table of the priorities: the scene and the app type of the task.
TablePriority(scene, app_type) ==
    IF scene = SCENE_GAME THEN (IF app_type = "game" THEN 10 ELSE 5)
    ELSE IF scene = SCENE_SOCIAL THEN (IF app_type = "social" THEN 8 ELSE 3)
    ELSE IF scene = SCENE_MEDIA THEN (IF app_type = "media" THEN 7 ELSE 4)
    ELSE IF scene = SCENE_PRODUCTIVITY
    THEN (IF app_type = "productivity" THEN 9 ELSE 6)
    ELSE 5

\* C32: updateTaskPriorities gives every task of the registry the priority
\* of the table for the scene preference and the app type of the task, and
\* changes nothing else: the tasks, their order and their other fields stay.
C32_PrioritiesFollowTable ==
    [][last_call'.op = "updateTaskPriorities" =>
          /\ Len(active_tasks') = Len(active_tasks)
          /\ \A i \in 1..Len(active_tasks) :
                active_tasks'[i] =
                    [active_tasks[i] EXCEPT
                        !.priority = TablePriority(config.current_scene,
                                                   active_tasks[i].app_type)]
          /\ config' = config]_vars

\* With the media scene, a media task has priority 7 and a game task 4.
C32_Witness ==
    /\ last_call.op = "updateTaskPriorities"
    /\ config.current_scene = SCENE_MEDIA
    /\ Len(active_tasks) = 2
    /\ active_tasks[1].app_type = "media" /\ active_tasks[1].priority = 7
    /\ active_tasks[2].app_type = "game" /\ active_tasks[2].priority = 4

\* C38: the registry never has two tasks of one pid, whatever the order of
\* addTask, removeTask and ticks of the monitor loop.  addTask of a pid
\* that is not in the registry pushes back one task of that pid, addTask of
\* a pid that is in it changes nothing, removeTask of a pid that is not in
\* it changes nothing, and getActiveTasks returns the registry.
C38_NoTwoTasksOfOnePid ==
    /\ []NoDuplicatePids
    /\ [][/\ last_call'.op = "addTask" =>
                IF last_call'.pid \in PidsOf(active_tasks)
                THEN active_tasks' = active_tasks
                ELSE /\ Len(active_tasks') = Len(active_tasks) + 1
                     /\ SubSeq(active_tasks', 1, Len(active_tasks)) = active_tasks
                     /\ active_tasks'[Len(active_tasks')].pid = last_call'.pid
          /\ (last_call'.op = "removeTask" /\ last_call'.pid \notin PidsOf(active_tasks))
                => active_tasks' = active_tasks
          /\ last_call'.op = "getActiveTasks" =>
                /\ active_tasks' = active_tasks
                /\ last_call'.tasks = active_tasks]_vars

\* A task of pid 2 has been added to a registry that holds the task the
\* monitor loop made for pid 1.
C38_Witness ==
    /\ last_call.op = "addTask"
    /\ last_call.pid = 2
    /\ Len(active_tasks) = 2
    /\ active_tasks[1].pid = 1 /\ active_tasks[1].app_type = "unknown"
    /\ active_tasks[2].pid = 2 /\ active_tasks[2].app_type = "game"

\* The foreground tasks of a list, in their order.
ForegroundTasks(tasks) ==
    LET IsForeground(task) == task.is_foreground
    IN  SelectSeq(tasks, IsForeground)

\* C33: in a pass of applySchedulingPolicies with task binding enabled every
\* foreground task is bound to the core (priority mod core count), which is
\* one of the cores 0 .. core count - 1, and no other task is bound; with
\* task binding disabled no task is bound.
C33_ForegroundTasksBound ==
    last_call.op = "applySchedulingPolicies" =>
        IF last_call.flags.enable_task_binding
        THEN \E cores \in DeviceCpuCores :
                /\ Len(last_call.binding_calls) = Len(ForegroundTasks(active_tasks))
                /\ \A i \in 1..Len(last_call.binding_calls) :
                      /\ last_call.binding_calls[i] =
                            [pid  |-> ForegroundTasks(active_tasks)[i].pid,
                             core |-> ForegroundTasks(active_tasks)[i].priority % cores]
                      /\ last_call.binding_calls[i].core \in 0..(cores - 1)
        ELSE last_call.binding_calls = <<>>

-----------------------------------------------------------------------------
(* Claims about the adaptive sampling interval *)

\* C9: the adaptive sampling interval changes only when both rolling
\* averages cross their thresholds together: it is widened only if the
\* average cpu usage is above 80 and the average memory usage is above 85
\* at the same time, narrowed only if the average cpu usage is below 20 and
\* the average memory usage is below 30 at the same time, and it is left
\* unchanged when only one of the two is past its threshold.
C9_BothAveragesCross ==
    sampling_call = "updateAdaptiveSampling" =>
        /\ FracLess(interval_before, base_sampling_interval) =>
              /\ FracLess(FracOfInt(80), avg_cpu_usage)
              /\ FracLess(FracOfInt(85), avg_memory_usage)
        /\ FracLess(base_sampling_interval, interval_before) =>
              /\ FracLess(avg_cpu_usage, FracOfInt(20))
              /\ FracLess(avg_memory_usage, FracOfInt(30))

\* C36: after any sequence of updateAdaptiveSampling, applyPerformanceTuning
\* and optimizeForDeviceCharacteristics the sampling interval lies between
\* min_sampling_interval and max_sampling_interval; a widening multiplies
\* the interval by 1.2 or 1.5 and is capped at the maximum, a narrowing
\* multiplies it by 0.8 and is floored at the minimum.
C36_IntervalWithinBounds ==
    /\ ~FracLess(base_sampling_interval, FracOfInt(min_sampling_interval))
    /\ ~FracLess(FracOfInt(max_sampling_interval), base_sampling_interval)
    /\ sampling_call = "updateAdaptiveSampling" =>
          \/ base_sampling_interval = interval_before
          \/ base_sampling_interval =
                FracMin(FracTimes(interval_before, 12, 10), FracOfInt(max_sampling_interval))
          \/ base_sampling_interval =
                FracMax(FracTimes(interval_before, 8, 10), FracOfInt(min_sampling_interval))
    /\ sampling_call = "monitorPerformance" =>
          \/ base_sampling_interval = interval_before
          \/ base_sampling_interval =
                FracMin(FracTimes(interval_before, 15, 10), FracOfInt(max_sampling_interval))

\* A narrowing that would have gone below the minimum has been floored.
C36_Witness ==
    /\ sampling_call = "updateAdaptiveSampling"
    /\ base_sampling_interval = FracOfInt(min_sampling_interval)
    /\ FracLess(FracTimes(interval_before, 8, 10), FracOfInt(min_sampling_interval))

OptimizedPaths == {"evaluateIndividualFitnessOptimized", "simulateGameRoundOptimized"}

HighLoad == shouldReduceSampling(avg_cpu_usage, avg_memory_usage)

\* C37: an optimized path skips its work only while adaptive sampling is
\* enabled and the monitor reports high load; in every other state it calls
\* the plain function, and a skipped fitness evaluation returns the
\* individual's previous fitness and leaves its fitness as it was.
C37_SkippedOnlyUnderHighLoad ==
    sampling_call \in OptimizedPaths =>
        /\ optimized_result.skipped => enable_adaptive_sampling /\ HighLoad
        /\ optimized_result.plain_called = ~optimized_result.skipped
        /\ (optimized_result.skipped
             /\ sampling_call = "evaluateIndividualFitnessOptimized") =>
               /\ optimized_result.returned = optimized_result.fitness_before
               /\ optimized_result.fitness_score = optimized_result.fitness_before

\* Adaptive sampling is enabled, the load is not high, the draw was below 0.3
\* and the evaluation was carried out.
C37_Witness ==
    /\ sampling_call = "evaluateIndividualFitnessOptimized"
    /\ enable_adaptive_sampling
    /\ ~HighLoad
    /\ avg_cpu_usage # FracOfInt(0)
    /\ optimized_result.draw_below
    /\ optimized_result.plain_called
    /\ optimized_result.returned # optimized_result.fitness_before

-----------------------------------------------------------------------------
(* Claims about the game *)

CooperativeActions(history) == Cardinality({k \in 1..Len(history) : history[k]})

\* What player i earns in a round against every other player
RoundPayoff(ps, i) ==
    SumOf([k \in 1..(Len(ps) - 1) |->
              getPayoff(ps[i].current_strategy,
                        ps[IF k < i THEN k ELSE k + 1].current_strategy)])

\* C35: after a round with n players each player's action history and payoff
\* history have grown by n - 1 entries, its cumulative payoff by the sum of
\* its payoffs of the round, and its cooperation_rate is the fraction of
\* cooperative actions in its action history.
C35_RoundRecordedByBothPlayers ==
    game_call.op = "simulateRound" =>
        \A i \in 1..Len(players) :
            LET before == game_call.players_before[i]
                after == players[i]
            IN  /\ Len(after.action_history) =
                      Len(before.action_history) + Len(players) - 1
                /\ Len(after.payoff_history) =
                      Len(before.payoff_history) + Len(players) - 1
                /\ after.cumulative_payoff =
                      before.cumulative_payoff
                          + RoundPayoff(game_call.players_before, i)
                /\ Len(after.action_history) > 0 =>
                      after.cooperation_rate =
                          Frac(CooperativeActions(after.action_history),
                               Len(after.action_history))

-----------------------------------------------------------------------------
(* Claims about the evolution lock *)

\* C34: every append to and every read of the evolution history is made by
\* a thread that holds the evolution lock, and none is made while another
\* thread's append, eviction or restore is in progress.
C34_HistoryAccessedUnderLock ==
    history_access.by # "none" =>
        history_access.locked /\ ~history_access.in_progress

-----------------------------------------------------------------------------
(* Claims about start() and stop() called from several threads *)

\* No call of start() or stop() is in progress.
CallersIdle == \A c \in Callers : callers_pc[c].pc = "idle"

\* Every loop thread that has seen running_ false has left its function.
LoopsSettled == running \/ LiveLoopThreads = {}

\* C39: however the calls of start() and stop() of several threads
\* interleave, no thread handle is assigned while it is joinable, none is
\* joined twice, and when the calls have returned and the loops have
\* settled the running flag says whether the loops are live.
C39_StartStopFromSeveralThreads ==
    /\ ~handle_events.assigned_while_joinable
    /\ ~handle_events.joined_twice
    /\ (CallersIdle /\ LoopsSettled) => (running <=> LiveLoopThreads # {})

-----------------------------------------------------------------------------
(* Claims about the locks *)

\* Where a thread of the engine is when it requests tasks_mutex_.
MainLockRequests ==
    {"updateTaskPriorities", "applySchedulingPolicies", "wait_for", "wait_woken",
     "wait_timed_out"}

\* No thread that is requesting one of the three mutexes holds one of them.
NoLockRequestedWhileHolding ==
    /\ main_pc \in MainLockRequests =>
          tasks_mutex # "main" /\ config_mutex # "main"
    /\ monitor_pc = "getRunningPIDs" =>
          tasks_mutex # "monitor" /\ config_mutex # "monitor"
    /\ caller_pc \in CallerTaskRequests =>
          tasks_mutex # "caller" /\ config_mutex # "caller"
    /\ history_pc.loop = "update_lock" => evolution_mutex # "loop"
    /\ history_pc.caller \in {"load_lock", "save_lock"} => evolution_mutex # "caller"

-----------------------------------------------------------------------------
(* Claims about loadConfig *)

NumericKeys ==
    {KEY_scheduling_interval, KEY_responsiveness_weight, KEY_fluency_weight,
     KEY_efficiency_weight, KEY_thermal_weight}

\* A line that sets a numeric key to a text that does not start with a number.
MalformedNumeric(line) ==
    /\ Len(line) > 0
    /\ line[1] # "#"
    /\ Find(line, "=", 1) > 0
    /\ Trim(SubSeq(line, 1, Find(line, "=", 1) - 1)) \in NumericKeys
    /\ LET value == Trim(SubSeq(line, Find(line, "=", 1) + 1, Len(line)))
       IN  IF Trim(SubSeq(line, 1, Find(line, "=", 1) - 1)) = KEY_scheduling_interval
           THEN stoi(value).threw
           ELSE stod(value).threw

\* The config after every line but the malformed ones has been applied.
RECURSIVE SkippingMalformed(_, _, _)
SkippingMalformed(cfg, file, i) ==
    IF i > Len(file) THEN cfg
    ELSE IF MalformedNumeric(file[i]) THEN SkippingMalformed(cfg, file, i + 1)
    ELSE SkippingMalformed(ApplyLine(cfg, file[i]).config, file, i + 1)

ConfigBeforeLoad == [DefaultConfig EXCEPT !.current_scene = config.current_scene]

\* C10: when loadConfig reads a file in which one line has a malformed
\* numeric value, that line is skipped, every other valid line of the file,
\* before and after it, is applied to the config, and loadConfig returns
\* normally.
C10_MalformedLineSkipped ==
    ( /\ load_pc \in {"returned", "terminated"}
      /\ config_file_exists
      /\ Cardinality({i \in 1..Len(config_file) : MalformedNumeric(config_file[i])}) = 1 )
    => /\ load_pc = "returned"
       /\ config = SkippingMalformed(ConfigBeforeLoad, config_file, 1)

\* C26: loadConfig applies every key that saveConfig writes, current_scene
\* included: a config that saveConfig wrote and loadConfig read back into a
\* new engine has the same enable flag, scheduling interval, optimization
\* flag, four weights and scene preference as the config that was saved.
C26_SaveLoadRoundTrip ==
    (saved_config.saved /\ load_pc = "returned") => config = saved_config.config

\* C21: when the configuration file can be opened at neither candidate
\* path, loadConfig leaves every field of the config as it was, logs one
\* error and returns; the start of the engine that follows succeeds.
C21_MissingFileKeepsConfig ==
    (~config_file_exists /\ load_pc \notin {"start", "ready"}) =>
        /\ load_pc \in {"returned", "started"}
        /\ config = ConfigBeforeLoad
        /\ load_log = <<"error">>
        /\ load_pc = "started" => running /\ live_main_loops = 1

\* No file could be opened, the scene preference set before the load is
\* still there, and the engine has been started.
C21_Witness ==
    /\ ~config_file_exists
    /\ load_pc = "started"
    /\ config.current_scene = SCENE_GAME
    /\ running

=============================================================================
